---- MODULE Spec2Model ----
(***************************************************************************)
(* A model of honesty (python-packaging/honesty): the on-disk HTTP cache   *)
(* (honesty/cache.py) and the dependency walker (honesty/deps.py).         *)
(*                                                                         *)
(* SpecCache: several processes call Cache.fetch / Cache.async_fetch on    *)
(* one cache directory while the upstream index publishes new documents.   *)
(* SpecWalk : DepWalker.enqueue / DepWalker.walk over a set of packages.   *)
(***************************************************************************)
EXTENDS Integers, Sequences, FiniteSets, TLC

(***************************************************************************)
(* Bounds.                                                                 *)
(***************************************************************************)
NumProcs == 2      \* concurrent callers of fetch on one cache directory
MaxCalls == 3      \* fetch calls started, over all processes
MaxVersion == 2    \* documents the upstream publishes per URL
NumChunks == 2     \* chunks a response body is streamed in

Procs == 1 .. NumProcs

(***************************************************************************)
(* Cache: values.                                                          *)
(***************************************************************************)
\* A file of the cache directory: absent, or present with its bytes (the
\* sequence of chunks written so far, each chunk naming its document).
AbsentFile == [ex |-> FALSE, data |-> <<>>]
File(data) == [ex |-> TRUE, data |-> data]

\* A header dict is a set of <<name, value>> pairs; {} is the empty dict.
Has(h, k) == \E x \in h : x[1] = k
Get(h, k) == (CHOOSE x \in h : x[1] = k)[2]

\* The .hdrs sidecar: absent, opened for writing and still empty ("torn"),
\* or holding the JSON of a header dict.
AbsentHdrs == [st |-> "absent", h |-> {}]
TornHdrs == [st |-> "torn", h |-> {}]
Hdrs(h) == [st |-> "json", h |-> h]

NoResp == [status |-> 0, ver |-> 0, headers |-> {}]
NoCall == [pkg |-> <<>>, filename |-> "none"]
NoPath == "nopath"
\* No process: lastReplace.proc before the first os.replace.
NoProc == NumProcs + 1

\* Package names are sequences of characters ("&" in pkg is a membership test).
GoodPkg == <<"p", "k", "g">>
AmpPkg == <<"p", "b", "&", "j">>
HashPkg == <<"a", "#", "b">>
PkgNames == {GoodPkg, AmpPkg, HashPkg}

\* Basenames of the URLs fetched: the index page (empty basename), the JSON
\* documents and one artifact.
Artifact == "foo-0.1.tar.gz"
Filenames == {"", "json", "691json", Artifact}

HasChar(s, c) == \E i \in 1 .. Len(s) : s[i] = c

\* The same test, had it looked for "&" only.
RejectedAmpOnly(pkg) == HasChar(pkg, "&")
\* Cache._fetch_common, the rejected package names
Rejected(pkg) == HasChar(pkg, "&") \/ HasChar(pkg, "#")

\* Cache._is_index_filename
_is_index_filename(name) == name \in {"", "json", "691json"}

\* output_file's name: filename or "index.html"
OutputName(filename) == IF filename = "" THEN "index.html" ELSE filename
OutputNames == {OutputName(f) : f \in Filenames}

\* The complete body of document `ver`, and what a file holds after k chunks.
Prefix(ver, k) == [i \in 1 .. k |-> ver]
Body(ver) == Prefix(ver, NumChunks)
Complete(f) == f.ex /\ \E v \in 1 .. MaxVersion : f.data = Body(v)

\* needs_recheck, had the existing file not been consulted.
NeedsRecheckAlways(f, filename) == TRUE
\* Cache._fetch_common: needs_recheck is False when the file exists under its
\* final name and is not an index.
NeedsRecheck(f, filename) == ~(f.ex /\ ~_is_index_filename(filename))

\* Cache._fetch_common: the conditional headers, from the sidecar's dict.
CondHeaders(f, hd) ==
    IF f.ex /\ hd.st = "json"
    THEN IF Has(hd.h, "etag") THEN {<<"If-None-Match", Get(hd.h, "etag")>>}
         ELSE IF Has(hd.h, "last-modified")
              THEN {<<"If-Modified-Since", Get(hd.h, "last-modified")>>}
              ELSE {}
    ELSE {}

\* json.loads(hdrs_file.read_text()) raises on a sidecar that is still empty.
HdrsUnreadable(f, hd) == f.ex /\ hd.st = "torn"

\* The sidecar's dict, had Last-Modified been preferred to the ETag.
SidecarHeadersLastModifiedFirst(rh) ==
    IF Has(rh, "last-modified") THEN {<<"last-modified", Get(rh, "last-modified")>>}
    ELSE IF Has(rh, "etag")
         THEN {<<"etag", Get(rh, "etag")>>}
         ELSE {}
\* Cache.fetch: the dict written to the sidecar, from the response's headers.
SidecarHeaders(rh) ==
    IF Has(rh, "etag") THEN {<<"etag", Get(rh, "etag")>>}
    ELSE IF Has(rh, "last-modified")
         THEN {<<"last-modified", Get(rh, "last-modified")>>}
         ELSE {}

\* The upstream server: the headers a 200 response for document `ver` may
\* carry (its ETag and Last-Modified both name the document), and whether a
\* conditional request is answered 304.
ResponseHeaders(ver) == SUBSET {<<"etag", ver>>, <<"last-modified", ver>>}
NotModified(cond, ver) ==
    \/ Has(cond, "If-None-Match") /\ Get(cond, "If-None-Match") = ver
    \/ Has(cond, "If-Modified-Since") /\ Get(cond, "If-Modified-Since") >= ver

(***************************************************************************)
(* Cache: state.  The callers of one behaviour all fetch the same URL      *)
(* (calls on different URLs touch disjoint files); the URL is chosen when  *)
(* the behaviour starts.                                                   *)
(***************************************************************************)
VARIABLES
    pc,          \* per process: where its fetch call stands
    call,        \* per process: the arguments of its call in flight
    pre,         \* per process: _Prefetch.headers
    resp,        \* per process: the response received
    tmp,         \* per process: its mkstemp file
    ret,         \* per process: the path its last call returned
    log,         \* per process: what its last call logged or raised
    url,         \* the basename of the URL the callers fetch
    body,        \* the file at the canonical path of that URL
    sidecar,     \* its .hdrs file
    dirs,        \* packages whose cache directory exists
    upstream,    \* the document the server holds at that URL now
    nreq,        \* HTTP requests issued so far
    ncalls,      \* fetch calls started so far
    lastReplace, \* whose os.replace came last, and with which document
    observed     \* <<etag, bytes at the returned path>> of each returned call

cvars == <<pc, call, pre, resp, tmp, ret, log, url, body, sidecar, dirs,
           upstream, nreq, ncalls, lastReplace, observed>>

\* The state of one DepWalker.
VARIABLES
    index,            \* what parse_index returns for each name the index has
    wcfg,             \* DepWalker.__init__ arguments
    queue,            \* self.queue: entries [parent, name, req]
    heap,             \* the DepNode objects, heap[RootId] is self.root
    nodes,            \* self.nodes: key -> object
    futures,          \* self.futures: "absent", "pending", "ok", "failed"
    submits,          \* POOL.submit calls, per name
    known_conflicts,  \* self.known_conflicts
    already_chosen,   \* walk's local already_chosen (0 is no entry)
    wargs,            \* the arguments of the walk in progress
    wpc,              \* "idle" or "walking"
    werr,             \* the exception that ended the last walk, "" if none
    fetches,          \* calls of _fetch_single_deps: [key, access, err]
    walked,           \* keys whose node was marked done, in order
    nenq,             \* calls of enqueue so far
    nwalks            \* calls of walk so far

wvars == <<index, wcfg, queue, heap, nodes, futures, submits, known_conflicts,
           already_chosen, wargs, wpc, werr, fetches, walked, nenq, nwalks>>

\* One call of deps._find_compatible_version, and a second one after the
\* index has published a newer release of the package.
VARIABLES
    fpkg,        \* the Package passed
    fargs,       \* the other arguments
    fout,        \* what the call returned or raised
    fprev        \* what it returned before the newer release was published

fvars == <<fpkg, fargs, fout, fprev>>

\* One call of releases.async_parse_index on an index document.
VARIABLES
    idoc,        \* the entries of the index document, in document order
    iargs,       \* strict and use_json
    iout         \* what the call returned or raised

ivars == <<idoc, iargs, iout>>

\* Calls of archive.extract_and_get_names on one archive, by any processes.
VARIABLES
    sentinel,    \* whether <archive_root>.done exists
    tree,        \* the state of each member's file under archive_root
    calls        \* each call: where it is, what it found and what it walked

avars == <<sentinel, tree, calls>>

\* The state outside the cache, the walker and version selection.
\* The check command: run_checker on the selected releases of a package.
VARIABLES
    kpkg,        \* the selected releases, in order
    kn,          \* how many of them were checked
    kout,        \* what the last run_checker returned and fetched
    krc          \* the rc of the check command

kvars == <<kpkg, kn, kout, krc>>

ovars == <<ivars, avars, kvars>>
\* The state outside the cache and the walker.
xvars == <<fvars, ovars>>

CacheInit ==
    /\ pc = [p \in Procs |-> "idle"]
    /\ call = [p \in Procs |-> NoCall]
    /\ pre = [p \in Procs |-> {}]
    /\ resp = [p \in Procs |-> NoResp]
    /\ tmp = [p \in Procs |-> AbsentFile]
    /\ ret = [p \in Procs |-> NoPath]
    /\ log = [p \in Procs |-> ""]
    /\ url \in Filenames
    /\ body = AbsentFile
    /\ sidecar = AbsentHdrs
    /\ dirs = {}
    /\ upstream = 1
    /\ nreq = 0
    /\ ncalls = 0
    /\ lastReplace = [proc |-> NoProc, ver |-> 0]
    /\ observed = {}

\* A call ends: its outcome is kept, its arguments and locals are gone.
Ends(p, state, path, msg) ==
    /\ pc' = [pc EXCEPT ![p] = state]
    /\ ret' = [ret EXCEPT ![p] = path]
    /\ log' = [log EXCEPT ![p] = msg]
    /\ call' = [call EXCEPT ![p] = NoCall]
    /\ pre' = [pre EXCEPT ![p] = {}]
    /\ resp' = [resp EXCEPT ![p] = NoResp]

\* Cache.fetch / Cache.async_fetch, up to the return of _fetch_common.
FetchCommon(p, pkg) ==
    /\ pc[p] \in {"idle", "done", "failed"}
    /\ ncalls < MaxCalls
    /\ ncalls' = ncalls + 1
    /\ IF Rejected(pkg)
       THEN /\ Ends(p, "failed", NoPath, "NotImplementedError")
            /\ UNCHANGED dirs
       ELSE /\ dirs' = dirs \cup {pkg}
            /\ IF ~NeedsRecheck(body, url)
               THEN Ends(p, "done", OutputName(url), "already downloaded")
               ELSE IF HdrsUnreadable(body, sidecar)
               THEN Ends(p, "failed", NoPath, "JSONDecodeError")
               ELSE /\ pc' = [pc EXCEPT ![p] = "get"]
                    /\ ret' = [ret EXCEPT ![p] = NoPath]
                    /\ log' = [log EXCEPT ![p] = ""]
                    /\ call' = [call EXCEPT ![p] = [pkg |-> pkg, filename |-> url]]
                    /\ pre' = [pre EXCEPT ![p] = CondHeaders(body, sidecar)]
                    /\ UNCHANGED resp
    /\ UNCHANGED <<tmp, url, body, sidecar, upstream, nreq, lastReplace, observed>>
    /\ UNCHANGED <<wvars, xvars>>

\* session.get: the request goes out and the response's status and headers
\* come back.
HttpGet(p) ==
    /\ pc[p] = "get"
    /\ nreq' = nreq + 1
    /\ \/ /\ NotModified(pre[p], upstream)
          /\ resp' = [resp EXCEPT ![p] = [status |-> 304, ver |-> upstream, headers |-> {}]]
       \/ /\ ~NotModified(pre[p], upstream)
          /\ \E rh \in ResponseHeaders(upstream) :
                resp' = [resp EXCEPT ![p] = [status |-> 200, ver |-> upstream, headers |-> rh]]
       \/ resp' = [resp EXCEPT ![p] = [status |-> 404, ver |-> 0, headers |-> {}]]
    /\ pc' = [pc EXCEPT ![p] = "resp"]
    /\ UNCHANGED <<call, pre, tmp, ret, log, url, body, sidecar, dirs, upstream,
                   ncalls, lastReplace, observed>>
    /\ UNCHANGED <<wvars, xvars>>

\* resp.raise_for_status()
RaiseForStatus(p) ==
    /\ pc[p] = "resp"
    /\ resp[p].status >= 400
    /\ Ends(p, "failed", NoPath, "HTTPError")
    /\ UNCHANGED <<tmp, url, body, sidecar, dirs, upstream, nreq, ncalls,
                   lastReplace, observed>>
    /\ UNCHANGED <<wvars, xvars>>

\* A 304 handled like a 200: the call goes on to mkstemp.
Return304FallsThrough(p) ==
    /\ pc[p] = "resp"
    /\ resp[p].status = 304
    /\ tmp' = [tmp EXCEPT ![p] = File(<<>>)]
    /\ pc' = [pc EXCEPT ![p] = "stream"]
    /\ UNCHANGED <<call, pre, resp, ret, log, url, body, sidecar, dirs, upstream,
                   nreq, ncalls, lastReplace, observed>>
    /\ UNCHANGED <<wvars, xvars>>
\* status 304: assert pre.local_path.exists(); return pre.local_path
Return304(p) ==
    /\ pc[p] = "resp"
    /\ resp[p].status = 304
    /\ IF body.ex
       THEN /\ Ends(p, "done", OutputName(url), "got 304")
            /\ observed' = observed \cup
                 (IF Has(pre[p], "If-None-Match")
                  THEN {<<Get(pre[p], "If-None-Match"), body.data>>}
                  ELSE {})
       ELSE /\ Ends(p, "failed", NoPath, "AssertionError")
            /\ UNCHANGED observed
    /\ UNCHANGED <<tmp, url, body, sidecar, dirs, upstream, nreq, ncalls, lastReplace>>
    /\ UNCHANGED <<wvars, xvars>>

\* A download that opens the file at the canonical path for writing.
MkstempAtFinalName(p) ==
    /\ pc[p] = "resp"
    /\ resp[p].status = 200
    /\ tmp' = [tmp EXCEPT ![p] = File(<<>>)]
    /\ body' = File(<<>>)
    /\ pc' = [pc EXCEPT ![p] = "stream"]
    /\ UNCHANGED <<call, pre, resp, ret, log, url, sidecar, dirs, upstream,
                   nreq, ncalls, lastReplace, observed>>
    /\ UNCHANGED <<wvars, xvars>>
\* mkstemp(suffix=".<pid>", prefix=local_path.name, dir=local_path.parent):
\* a new, empty file whose name no other call has.
Mkstemp(p) ==
    /\ pc[p] = "resp"
    /\ resp[p].status = 200
    /\ tmp' = [tmp EXCEPT ![p] = File(<<>>)]
    /\ pc' = [pc EXCEPT ![p] = "stream"]
    /\ UNCHANGED <<call, pre, resp, ret, log, url, body, sidecar, dirs, upstream,
                   nreq, ncalls, lastReplace, observed>>
    /\ UNCHANGED <<wvars, xvars>>

\* f.write(chunk), one chunk of the body
WriteChunk(p) ==
    /\ pc[p] = "stream"
    /\ Len(tmp[p].data) < NumChunks
    /\ tmp' = [tmp EXCEPT ![p] = File(Append(tmp[p].data, resp[p].ver))]
    /\ UNCHANGED <<pc, call, pre, resp, ret, log, url, body, sidecar, dirs,
                   upstream, nreq, ncalls, lastReplace, observed>>
    /\ UNCHANGED <<wvars, xvars>>

\* The call is cancelled (or its process killed) while streaming the body;
\* the temporary file stays.
Abort(p) ==
    /\ pc[p] = "stream"
    /\ pc' = [pc EXCEPT ![p] = "aborted"]
    /\ UNCHANGED <<call, pre, resp, tmp, ret, log, url, body, sidecar, dirs,
                   upstream, nreq, ncalls, lastReplace, observed>>
    /\ UNCHANGED <<wvars, xvars>>

\* A rename that would not overwrite an existing file.
ReplacedIfAbsent(old, new) == IF old.ex THEN old ELSE new
\* What os.replace(name, pre.local_path) leaves at the canonical path.
Replaced(old, new) == new

\* f.close(); os.replace(name, pre.local_path)
Replace(p) ==
    /\ pc[p] = "stream"
    /\ Len(tmp[p].data) = NumChunks
    /\ body' = Replaced(body, tmp[p])
    /\ tmp' = [tmp EXCEPT ![p] = AbsentFile]
    /\ lastReplace' = [proc |-> p, ver |-> resp[p].ver]
    /\ pc' = [pc EXCEPT ![p] = "hdrs"]
    /\ UNCHANGED <<call, pre, resp, ret, log, url, sidecar, dirs, upstream, nreq,
                   ncalls, observed>>
    /\ UNCHANGED <<wvars, xvars>>

\* hdrs_file.write_text(...): open(mode="w") creates or truncates the sidecar
HdrsOpen(p) ==
    /\ pc[p] = "hdrs"
    /\ sidecar' = TornHdrs
    /\ pc' = [pc EXCEPT ![p] = "hdrswrite"]
    /\ UNCHANGED <<call, pre, resp, tmp, ret, log, url, body, dirs, upstream,
                   nreq, ncalls, lastReplace, observed>>
    /\ UNCHANGED <<wvars, xvars>>

\* hdrs_file.write_text(json.dumps(headers)): the write and the close; then
\* return pre.local_path
HdrsWrite(p) ==
    /\ pc[p] = "hdrswrite"
    /\ sidecar' = Hdrs(SidecarHeaders(resp[p].headers))
    /\ Ends(p, "done", OutputName(url), "newly downloaded")
    /\ observed' = observed \cup
         (IF Has(resp[p].headers, "etag")
          THEN {<<Get(resp[p].headers, "etag"), body.data>>}
          ELSE {})
    /\ UNCHANGED <<tmp, url, body, dirs, upstream, nreq, ncalls, lastReplace>>
    /\ UNCHANGED <<wvars, xvars>>

\* The index publishes a new document at the URL.
Publish ==
    /\ upstream < MaxVersion
    /\ upstream' = upstream + 1
    /\ UNCHANGED <<pc, call, pre, resp, tmp, ret, log, url, body, sidecar, dirs,
                   nreq, ncalls, lastReplace, observed>>
    /\ UNCHANGED <<wvars, xvars>>

CacheNext ==
    \/ \E p \in Procs, pkg \in PkgNames : FetchCommon(p, pkg)
    \/ \E p \in Procs : HttpGet(p)
    \/ \E p \in Procs : RaiseForStatus(p)
    \/ \E p \in Procs : Return304(p)
    \/ \E p \in Procs : Mkstemp(p)
    \/ \E p \in Procs : WriteChunk(p)
    \/ \E p \in Procs : Abort(p)
    \/ \E p \in Procs : Replace(p)
    \/ \E p \in Procs : HdrsOpen(p)
    \/ \E p \in Procs : HdrsWrite(p)
    \/ Publish

(***************************************************************************)
(* Cache: the claims.                                                      *)
(***************************************************************************)
InFlight(p) == pc[p] \in {"get", "resp", "stream", "hdrs", "hdrswrite"}
AllReturned == \A p \in Procs : ~InFlight(p)

\* What a step of the cache leaves alone when it touches no file.
NoFileTouched == body' = body /\ sidecar' = sidecar /\ tmp' = tmp

\* C1: the file at the canonical path is always absent or one complete
\* response body, also while fetches interleave and after one was aborted
\* mid-stream; the canonical file changes only by the rename of a caller's own,
\* completely written temporary file onto it, and a temporary file only grows
\* by its owner's writes.
C1_CanonicalNeverPartial ==
    /\ [](body.ex => Complete(body))
    /\ [][body' # body =>
            (\E p \in Procs : /\ pc[p] = "stream"
                              /\ Complete(tmp[p])
                              /\ body' = tmp[p]
                              /\ ~tmp'[p].ex
                              /\ \A q \in Procs \ {p} : tmp'[q] = tmp[q])]_cvars

\* C1 witness: one caller was aborted with half a body in its temporary file
\* while the canonical file, written by another caller, is in place.
C1_Witness ==
    \E p, q \in Procs :
        /\ pc[p] = "aborted" /\ tmp[p].ex /\ Len(tmp[p].data) = 1
        /\ lastReplace.proc = q /\ body.ex

\* C2: fetches of one index URL that each got a 200 and overlapped: once all
\* have returned, the canonical file is the whole body of the fetch that
\* renamed last; a fetch that got its 200 always has a step to take and never
\* fails.
Got200(p) ==
    \/ pc[p] = "resp" /\ resp[p].status = 200
    \/ pc[p] \in {"stream", "hdrs", "hdrswrite"}

C2_LastWriterWins ==
    /\ []((AllReturned /\ lastReplace.proc # NoProc)
            => body = File(Body(lastReplace.ver)))
    /\ [](\A p \in Procs : Got200(p) =>
            ENABLED (Mkstemp(p) \/ WriteChunk(p) \/ Replace(p)
                       \/ HdrsOpen(p) \/ HdrsWrite(p)))
    /\ [][\A p \in Procs : Got200(p) => pc'[p] # "failed"]_cvars

\* C2 witness: two callers of the index URL both renamed, with different
\* documents, the second rename still to write its sidecar.
C2_Witness ==
    /\ url = ""
    /\ pc[1] = "hdrswrite" /\ pc[2] = "hdrs"
    /\ resp[1].ver # resp[2].ver
    /\ lastReplace.proc = 2
    /\ body = File(Body(resp[2].ver))

\* C3: a fetch of a non-index filename whose file exists returns its path at
\* once: no request, no file touched, every time.
NonIndexName(name) == name \notin {"", "json", "691json"}

C3_ArtifactHitIsLocal ==
    [][\A p \in Procs :
          (FetchCommon(p, GoodPkg) /\ NonIndexName(url) /\ body.ex)
            => /\ pc'[p] = "done"
               /\ ret'[p] = url
               /\ nreq' = nreq
               /\ NoFileTouched]_cvars

\* C3 witness: the artifact was fetched once and then served from the cache
\* by every later call.
C3_Witness ==
    /\ NonIndexName(url)
    /\ body.ex
    /\ ncalls = MaxCalls
    /\ nreq = 1
    /\ \A p \in Procs : log[p] = "already downloaded"

\* C4: a fetch of an index filename always issues a request; with the body
\* and its sidecar there it carries If-None-Match with the recorded etag, else
\* If-Modified-Since with the recorded last-modified, else no conditional
\* header; with the body missing it carries none.
Recorded(hd, k) == hd.st = "json" /\ Has(hd.h, k)

ClaimedCondHeaders(f, hd) ==
    IF f.ex /\ hd.st # "absent"
    THEN IF Recorded(hd, "etag")
         THEN {<<"If-None-Match", Get(hd.h, "etag")>>}
         ELSE IF Recorded(hd, "last-modified")
              THEN {<<"If-Modified-Since", Get(hd.h, "last-modified")>>}
              ELSE {}
    ELSE {}

C4_IndexAlwaysRevalidates ==
    [][\A p \in Procs :
          /\ (FetchCommon(p, GoodPkg) /\ ~NonIndexName(url))
               => /\ pc'[p] = "get"
                  /\ pre'[p] = ClaimedCondHeaders(body, sidecar)
          /\ (HttpGet(p) /\ ~NonIndexName(url)) => nreq' = nreq + 1]_cvars

\* C5: a 304 returns the canonical path and leaves body and sidecar as they
\* were; no step of that call touches a file or creates a temporary one.
C5_NotModifiedKeepsFiles ==
    [][\A p \in Procs :
          /\ (pc[p] = "resp" /\ resp[p].status = 304 /\ pc'[p] # pc[p])
               => /\ pc'[p] = "done"
                  /\ ret'[p] = OutputName(url)
                  /\ log'[p] = "got 304"
                  /\ NoFileTouched
          /\ (FetchCommon(p, GoodPkg) \/ HttpGet(p)) => NoFileTouched]_cvars

\* C5 witness: a call that sent a conditional request has returned on a 304.
C5_Witness ==
    \E p \in Procs :
        /\ log[p] = "got 304" /\ ret[p] = OutputName(url)
        /\ body.ex /\ sidecar.st = "json"

\* C6: on a 200 the body is replaced first and the sidecar written after;
\* when the call returns the sidecar holds the response's ETag if it had one,
\* else its Last-Modified if it had one, else an empty object.
ClaimedSidecar(rh) ==
    IF Has(rh, "etag") THEN {x \in rh : x[1] = "etag"}
    ELSE {x \in rh : x[1] = "last-modified"}

C6_SidecarAfterBody ==
    [][/\ sidecar' # sidecar =>
            (\E q \in Procs : /\ pc[q] \in {"hdrs", "hdrswrite"}
                              /\ pc'[q] # pc[q]
                              /\ lastReplace.proc # NoProc
                              /\ ~tmp[q].ex
                              /\ Complete(body))
        /\ \A p \in Procs :
             (Got200(p) /\ pc'[p] = "done")
               => /\ sidecar' = Hdrs(ClaimedSidecar(resp[p].headers))
                  /\ ret'[p] = OutputName(url)]_cvars

\* C6 witness: a revalidation that found no ETag in the sidecar got a 200
\* and returned; the sidecar now holds the new document's ETag.
C6_Witness ==
    \E p \in Procs :
        /\ url = ""
        /\ log[p] = "newly downloaded"
        /\ nreq >= 2
        /\ upstream = 2
        /\ body = File(Body(2))
        /\ sidecar = Hdrs({<<"etag", 2>>})

\* C7: two returned fetches of the URL that observed the same upstream ETag
\* (in a 200, or by a 304 to it) hold the same bytes at the returned path.
C7_SameEtagSameBytes ==
    \A x, y \in observed : x[1] = y[1] => x[2] = y[2]

\* C8: a package name with "&" or "#" fails with NotImplementedError before
\* anything happens: no directory, no file, no request.
AmpOrHash(pkg) == \E i \in 1 .. Len(pkg) : pkg[i] \in {"&", "#"}

C8_RejectedNameTouchesNothing ==
    [][\A p \in Procs, pkg \in PkgNames :
          (FetchCommon(p, pkg) /\ AmpOrHash(pkg))
            => /\ pc'[p] = "failed"
               /\ log'[p] = "NotImplementedError"
               /\ dirs' = dirs
               /\ nreq' = nreq
               /\ NoFileTouched]_cvars

\* C8 witness: a rejected call on a cache nobody else has used.
C8_Witness ==
    \E p \in Procs :
        /\ log[p] = "NotImplementedError" /\ pc[p] = "failed"
        /\ dirs = {} /\ nreq = 0 /\ ~body.ex

(***************************************************************************)
(* Walker: values.                                                         *)
(***************************************************************************)
MaxEnqueues == 2   \* calls of DepWalker.enqueue
MaxWalks == 2      \* calls of DepWalker.walk
MaxQueue == 4      \* entries the queue may hold

\* packaging.utils.canonicalize_name, on the spellings used here
canonicalize_name(n) ==
    CASE n = "A" -> "a"
      [] n = "B" -> "b"
      [] n = "C_" -> "c"
      [] OTHER -> n

\* deps.is_canonical
is_canonical(n) == n = canonicalize_name(n)

\* Python versions are compared by their place in this order.
PyOrd(v) ==
    CASE v = "2.7" -> 27
      [] v = "3" -> 30
      [] v = "3.6" -> 36
      [] v = "3.7" -> 37
      [] OTHER -> 0

Compare(a, op, b) ==
    CASE op = "==" -> a = b
      [] op = "!=" -> a # b
      [] op = "<" -> a < b
      [] op = "<=" -> a <= b
      [] op = ">" -> a > b
      [] op = ">=" -> a >= b
      [] OTHER -> FALSE

\* A SpecifierSet is a set of <<operator, version>> pairs, all of which a
\* version must satisfy; {} admits every version.
Contains(spec, v) == \A c \in spec : Compare(v, c[1], c[2])

\* A marker is the flat list packaging keeps in Marker._markers: comparisons
\* [var, op, val] joined by the connectives "and" / "or"; <<>> is no marker.
NoMarker == <<>>
Cmp(var, op, val) == [var |-> var, op |-> op, val |-> val]
AndM == Cmp("and", "", "")
OrM == Cmp("or", "", "")

\* EnvironmentMarkers, as DepWalker.__init__ fills it: extra is None.
EvalCmp(m, pyver) ==
    CASE m.var = "python_version" -> Compare(PyOrd(pyver), m.op, PyOrd(m.val))
      [] m.var = "sys_platform" ->
            Compare(IF PyOrd(pyver) < PyOrd("3") THEN "linux2" ELSE "linux", m.op, m.val)
      [] m.var = "extra" -> Compare("None", m.op, m.val)
      [] OTHER -> FALSE

\* packaging's _evaluate_markers: "or" splits the list into groups, a group
\* holds when all its comparisons hold, the marker when any group does.
RECURSIVE EvalFrom(_, _, _, _)
EvalFrom(ms, i, acc, pyver) ==
    IF i > Len(ms) THEN acc
    ELSE IF ms[i].var = "or" THEN acc \/ EvalFrom(ms, i + 1, TRUE, pyver)
    ELSE IF ms[i].var = "and" THEN EvalFrom(ms, i + 1, acc, pyver)
    ELSE EvalFrom(ms, i + 1, acc /\ EvalCmp(ms[i], pyver), pyver)

\* DepWalker._do_markers_match
_do_markers_match(marker, pyver) == EvalFrom(marker, 1, TRUE, pyver)

\* packaging.requirements.Requirement: name as spelled, extras, specifier,
\* marker.
Req(name, extras, spec, marker) ==
    [name |-> name, extras |-> extras, spec |-> spec, marker |-> marker]

Plain(name) == Req(name, {}, {}, NoMarker)

\* releases.FileEntry (the fields the walker reads).  requires_python is
\* absent, a specifier set over Python versions, or text that is no specifier;
\* upload_time and size are 0 when None; meta is the requirement list inside
\* the archive's metadata.
NoRP == [k |-> "none", spec |-> {}]
RP(spec) == [k |-> "spec", spec |-> spec]
BadRP == [k |-> "invalid", spec |-> {}]
FileEntry(file_type, requires_python, upload_time, size, meta) ==
    [file_type |-> file_type, requires_python |-> requires_python,
     upload_time |-> upload_time, size |-> size, meta |-> meta]

\* releases.PackageRelease: requires is None (some = FALSE) or a list.
NoRequires == [some |-> FALSE, list |-> <<>>]
Requires(list) == [some |-> TRUE, list |-> list]
PackageRelease(version, files, requires) ==
    [version |-> version, files |-> files, requires |-> requires]

\* releases.Package: the releases in ascending version order.
Package(name, releases) == [name |-> name, releases |-> releases]

HasRelease(package, v) ==
    \E k \in 1 .. Len(package.releases) : package.releases[k].version = v
ReleaseOf(package, v) ==
    package.releases[CHOOSE k \in 1 .. Len(package.releases) :
                        package.releases[k].version = v]

\* _find_compatible_version: the oldest upload time of a release's files.
RECURSIVE OldestFrom(_, _, _)
OldestFrom(files, k, oldest) ==
    IF k > Len(files) THEN oldest
    ELSE IF oldest = 0 \/ files[k].upload_time < oldest
         THEN OldestFrom(files, k + 1, files[k].upload_time)
         ELSE OldestFrom(files, k + 1, oldest)
OldestFile(files) == OldestFrom(files, 1, 0)

\* A trim_newer test that looks at the newest file instead of the oldest.
TrimmedWhenAnyNewer(release, trim_newer) ==
    /\ trim_newer # 0
    /\ \E k \in 1 .. Len(release.files) : release.files[k].upload_time > trim_newer
\* _find_compatible_version: the trim_newer test (trim_newer 0 is None).
Trimmed(release, trim_newer) ==
    /\ trim_newer # 0
    /\ OldestFile(release.files) # 0
    /\ OldestFile(release.files) > trim_newer

\* _find_compatible_version: requires_python of the first file that has one.
RECURSIVE FirstRP(_, _)
FirstRP(files, k) ==
    IF k > Len(files) THEN NoRP
    ELSE IF files[k].requires_python.k # "none" THEN files[k].requires_python
    ELSE FirstRP(files, k + 1)

PythonOk(release, python_version) ==
    LET rp == FirstRP(release.files, 1) IN
    CASE rp.k = "invalid" -> FALSE
      [] rp.k = "none" -> TRUE
      [] OTHER -> \A c \in rp.spec :
                     Compare(PyOrd(python_version), c[1], PyOrd(c[2]))

\* The versions of a sequence of releases, in order.
VersionsOf(rels) == [k \in 1 .. Len(rels) |-> rels[k].version]

\* A filter that keeps every version.
FilterNothing(spec, possible) == possible
\* specifiers.filter(possible)
Filter(spec, possible) == SelectSeq(possible, LAMBDA v : Contains(spec, v))

\* A sort key of the index alone.
SortsAfterByIndex(possible, ac, cur_v, j, k) == j > k
\* The sort key (p == ac, p == cur_v, i): whether candidate j sorts after k.
SortsAfter(possible, ac, cur_v, j, k) ==
    LET a1 == possible[j] = ac
        b1 == possible[k] = ac
        a2 == possible[j] = cur_v
        b2 == possible[k] = cur_v
    IN  \/ a1 /\ ~b1
        \/ a1 = b1 /\ a2 /\ ~b2
        \/ a1 = b1 /\ a2 = b2 /\ j > k

\* The last by an index that wraps around after two candidates.
LastSortedWraps(possible, ac, cur_v) == possible[((Len(possible) - 1) % 2) + 1]
\* sorted(...)[-1][3]
LastSorted(possible, ac, cur_v) ==
    possible[CHOOSE j \in 1 .. Len(possible) :
               \A k \in (1 .. Len(possible)) \ {j} :
                   SortsAfter(possible, ac, cur_v, j, k)]

\* The list had the first "if not possible" come after the installed version
\* is inserted.
CheckedAfterInsert(before, after) == after
\* The list the first "if not possible" looks at: the compatible releases,
\* before the installed version is inserted.
Checked(before, after) == before

Chose(v) == [err |-> "", v |-> v]
Raises(err) == [err |-> err, v |-> 0]

\* deps._find_compatible_version; ac is already_chosen.get(package.name) and
\* cur what current_versions_callback(package.name) returned, 0 when None.
_find_compatible_version(package, specifiers, python_version, trim_newer, ac, cur) ==
    LET compatible == SelectSeq(package.releases,
                                LAMBDA r : /\ ~Trimmed(r, trim_newer)
                                           /\ PythonOk(r, python_version))
        possible0 == VersionsOf(compatible)
        possible1 == IF cur # 0 /\ ~HasRelease(package, cur)
                     THEN Append(possible0, cur)
                     ELSE possible0
        possible == Filter(specifiers, possible1)
    IN  IF Checked(possible0, possible1) = <<>> THEN Raises("incompatible")
        ELSE IF possible = <<>> THEN Raises("no matching version")
        ELSE Chose(LastSorted(possible, ac, cur))

\* Above this size a wheel's metadata is read remotely.
BigWheel == 20000000

Deps(list, access) == [err |-> "", deps |-> list, access |-> access]
NoDeps(err) == [err |-> err, deps |-> <<>>, access |-> "none"]

\* A size test that takes a wheel of exactly 20000000 bytes as gigantic.
GiganticFrom(size) == size >= BigWheel
\* fe.size is not None and fe.size > 20000000 (size 0 is None)
Gigantic(size) == size # 0 /\ size > BigWheel

RECURSIVE FirstOfType(_, _, _)
FirstOfType(files, file_type, k) ==
    IF k > Len(files) THEN 0
    ELSE IF files[k].file_type = file_type THEN k
    ELSE FirstOfType(files, file_type, k + 1)

\* DepWalker._fetch_single_deps: the requirement list of (package, v) and how
\* the artifact was reached ("none", "remote", "cache").
_fetch_single_deps(package, v) ==
    IF ~HasRelease(package, v) THEN Deps(<<>>, "none")
    ELSE LET rel == ReleaseOf(package, v)
             w == FirstOfType(rel.files, "BDIST_WHEEL", 1)
             sd == FirstOfType(rel.files, "SDIST", 1)
         IN  IF rel.requires.some THEN Deps(rel.requires.list, "none")
             ELSE IF w # 0
                  THEN IF Gigantic(rel.files[w].size)
                       THEN Deps(rel.files[w].meta, "remote")
                       ELSE Deps(rel.files[w].meta, "cache")
             ELSE IF sd # 0 THEN Deps(rel.files[sd].meta, "cache")
             ELSE NoDeps("No whl/sdist")

\* walk: extra_str of a dependency, the value of the last top-level
\* comparison on "extra" ("" when there is none), and whether one of them
\* trips the assertion that its operator is "==".
RECURSIVE ExtraFrom(_, _, _)
ExtraFrom(ms, k, found) ==
    IF k > Len(ms) THEN found
    ELSE IF ms[k].var = "extra" THEN ExtraFrom(ms, k + 1, ms[k].val)
    ELSE ExtraFrom(ms, k + 1, found)
ExtraStr(marker) == ExtraFrom(marker, 1, "")
ExtraAssertFails(marker) ==
    \E k \in 1 .. Len(marker) : marker[k].var = "extra" /\ marker[k].op # "=="

\* A walk that follows an extra when the requirement names it or when
\* include_extras is set.
WantedEither(dep_req, req, include_extras) ==
    \/ ExtraStr(dep_req.marker) = ""
    \/ include_extras
    \/ ExtraStr(dep_req.marker) \in req.extras
\* walk: whether a discovered dependency is enqueued.
Wanted(dep_req, req, include_extras) ==
    \/ ExtraStr(dep_req.marker) = ""
    \/ include_extras /\ ExtraStr(dep_req.marker) \in req.extras

\* A node key: (name, version, sorted extras tuple), the tuple None for a
\* version that is not in the index.
Key(name, version, extras) ==
    [name |-> name, version |-> version, extras |-> [some |-> TRUE, set |-> extras]]
KeyNone(name, version) ==
    [name |-> name, version |-> version, extras |-> [some |-> FALSE, set |-> {}]]

\* deps.DepNode and deps.DepEdge; a node is an object of the heap, named by
\* its index there.  has_sdist / has_bdist are "True", "False" or "None".
DepNode(name, version, has_sdist, has_bdist, dep_extras) ==
    [name |-> name, version |-> version, deps |-> <<>>, has_sdist |-> has_sdist,
     has_bdist |-> has_bdist, dep_extras |-> dep_extras, done |-> FALSE]
DepEdge(target, constraints, markers) ==
    [target |-> target, constraints |-> constraints, markers |-> markers]
RootId == 1
RootNode == DepNode("fake", 0, "False", "False", {})

PyBool(b) == IF b THEN "True" ELSE "False"

(***************************************************************************)
(* Walker: the index the walker reads.  Each release's requirement list is *)
(* drawn from a few alternatives, so that the requirement graphs include   *)
(* chains, diamonds, cycles, self-loops, pins, extras and markers.         *)
(***************************************************************************)
ExtraX == <<Cmp("extra", "==", "x")>>
NotExtraX == <<Cmp("extra", "!=", "x")>>
Py2Only == <<Cmp("python_version", "<", "3")>>
Pinned(name, v) == Req(name, {}, {<<"==", v>>}, NoMarker)

Wheel(size, meta) == FileEntry("BDIST_WHEEL", NoRP, 0, size, meta)
Sdist(meta) == FileEntry("SDIST", NoRP, 0, 0, meta)
Inline(version, list) == PackageRelease(version, <<>>, Requires(list))
Files(version, files) == PackageRelease(version, files, NoRequires)

IndexNames == {"a", "b", "c"}
WNames == IndexNames \cup {"d"}

\* An index of a 1, b 1, b 2 and c 1.
IndexOf(a1, b1, b2, c1) ==
    [n \in IndexNames |->
        CASE n = "a" -> Package("a", <<a1>>)
          [] n = "b" -> Package("b", <<b1, b2>>)
          [] OTHER -> Package("c", <<c1>>)]

\* a pinned chain a -> b==1 -> c
ChainIndex ==
    IndexOf(Inline(1, <<Pinned("b", 1)>>), Inline(1, <<Plain("c")>>),
            Inline(2, <<>>), Inline(1, <<>>))
\* a diamond a -> {b, c}, b -> c, closed into cycles by b 2 -> a and c -> b;
\* c's requirements are in its wheel, of exactly 20000000 bytes
CycleIndex ==
    IndexOf(Inline(1, <<Plain("b"), Plain("c")>>), Inline(1, <<Plain("c")>>),
            Inline(2, <<Plain("a")>>),
            Files(1, <<Sdist(<<>>), Wheel(BigWheel, <<Plain("b")>>)>>))
\* a -> b[x], b needs c only under the extra x; c is one gigantic wheel
ExtrasIndex ==
    IndexOf(Inline(1, <<Req("b", {"x"}, {}, NoMarker)>>), Inline(1, <<>>),
            Inline(2, <<Req("c", {}, {}, ExtraX)>>),
            Files(1, <<Wheel(BigWheel + 1, <<>>)>>))
\* a requires itself; b needs a on Python 2 only; c is an sdist naming "B"
LoopIndex ==
    IndexOf(Inline(1, <<Plain("a")>>), Inline(1, <<Plain("c")>>),
            Inline(2, <<Req("a", {}, {}, Py2Only), Plain("c")>>),
            Files(1, <<Sdist(<<Plain("B")>>)>>))
\* b needs d, which the index does not have; c has neither wheel nor sdist
MissingIndex ==
    IndexOf(Inline(1, <<Plain("b"), Plain("c")>>), Inline(1, <<>>),
            Inline(2, <<Plain("d")>>),
            Files(1, <<FileEntry("UNKNOWN", NoRP, 0, 0, <<>>)>>))
\* b's second requirement compares extra with "!="; c is a wheel of the HTML
\* index, whose size is not known
BadExtraIndex ==
    IndexOf(Inline(1, <<Plain("b")>>), Inline(1, <<>>),
            Inline(2, <<Plain("c"), Req("a", {}, {}, NotExtraX)>>),
            Files(1, <<Wheel(0, <<>>)>>))

Indexes ==
    {ChainIndex, CycleIndex, ExtrasIndex, LoopIndex, MissingIndex, BadExtraIndex}

\* The requirement lists handed to enqueue.
RootLists ==
    { <<Plain("a")>>,
      <<Plain("B")>>,
      <<Pinned("b", 2), Plain("a")>>,
      <<Req("c", {"x"}, {}, NoMarker)>>,
      <<Plain("d"), Plain("c")>> }

\* current_versions_callback: nothing installed, or b at a version the index
\* has, or b at a version it does not have.
NothingInstalled == [n \in WNames |-> 0]
Callbacks ==
    { NothingInstalled,
      [NothingInstalled EXCEPT !["b"] = 1],
      [NothingInstalled EXCEPT !["b"] = 3] }

(***************************************************************************)
(* Walker: state.                                                          *)
(***************************************************************************)
PythonVersions == {"3.6"}
Configs == [python_version : PythonVersions, only_first : BOOLEAN, trim_newer : {0}]
NoArgs == [include_extras |-> FALSE, installed |-> NothingInstalled]

\* DepWalker.__init__
WalkerInit ==
    /\ index \in Indexes
    /\ wcfg \in Configs
    /\ queue = <<>>
    /\ heap = <<RootNode>>
    /\ nodes = [k \in {} |-> 0]
    /\ futures = [n \in WNames |-> "absent"]
    /\ submits = [n \in WNames |-> 0]
    /\ known_conflicts = {}
    /\ already_chosen = [n \in WNames |-> 0]
    /\ wargs = NoArgs
    /\ wpc = "idle"
    /\ werr = ""
    /\ fetches = <<>>
    /\ walked = <<>>
    /\ nenq = 0
    /\ nwalks = 0

QueueEntry(parent, name, req) == [parent |-> parent, name |-> name, req |-> req]

\* A queue that grows at its front.
EnqueuedInFront(q, entry) == <<entry>> \o q
\* self.queue.append(...)
Enqueued(q, entry) == Append(q, entry)

\* A submit for every queue entry.
SubmitAlways(f, name) == [f EXCEPT ![name] = "pending"]
\* if name not in self.futures: self.futures[name] = POOL.submit(...)
Submit(f, name) == IF f[name] = "absent" THEN [f EXCEPT ![name] = "pending"] ELSE f

Submitted(f, g) ==
    [n \in WNames |-> submits[n] + (IF f[n] = "absent" /\ g[n] # "absent" THEN 1 ELSE 0)]

\* The loop of DepWalker.enqueue over reqs[k ..], on behalf of root.
RECURSIVE EnqueueFrom(_, _, _, _)
EnqueueFrom(reqs, k, q, f) ==
    IF k > Len(reqs) THEN [queue |-> q, futures |-> f]
    ELSE LET name == canonicalize_name(reqs[k].name)
         IN  EnqueueFrom(reqs, k + 1,
                         Enqueued(q, QueueEntry(RootId, name, reqs[k])),
                         Submit(f, name))

\* DepWalker.enqueue(reqs)
enqueue(reqs) ==
    /\ wpc = "idle"
    /\ nenq < MaxEnqueues
    /\ Len(queue) + Len(reqs) <= MaxQueue
    /\ LET r == EnqueueFrom(reqs, 1, queue, futures)
       IN  /\ queue' = r.queue
           /\ futures' = r.futures
           /\ submits' = Submitted(futures, r.futures)
    /\ nenq' = nenq + 1
    /\ UNCHANGED <<index, wcfg, heap, nodes, known_conflicts, already_chosen,
                   wargs, wpc, werr, fetches, walked, nwalks>>
    /\ UNCHANGED <<cvars, xvars>>

\* A pool thread finishes DepWalker.fetch(name): parse_index returned the
\* package, or raised (always so for a name the index does not have).
FutureDone(name) ==
    /\ futures[name] = "pending"
    /\ \E outcome \in {"ok", "failed"} :
          /\ outcome = "ok" => name \in IndexNames
          /\ futures' = [futures EXCEPT ![name] = outcome]
    /\ UNCHANGED <<index, wcfg, queue, heap, nodes, submits, known_conflicts,
                   already_chosen, wargs, wpc, werr, fetches, walked, nenq, nwalks>>
    /\ UNCHANGED <<cvars, xvars>>

\* DepWalker.walk, up to the loop: already_chosen starts empty.
WalkStart(include_extras, installed) ==
    /\ wpc = "idle"
    /\ nwalks < MaxWalks
    /\ nwalks' = nwalks + 1
    /\ wpc' = "walking"
    /\ werr' = ""
    /\ already_chosen' = [n \in WNames |-> 0]
    /\ wargs' = [include_extras |-> include_extras, installed |-> installed]
    /\ UNCHANGED <<index, wcfg, queue, heap, nodes, futures, submits,
                   known_conflicts, fetches, walked, nenq>>
    /\ UNCHANGED <<cvars, xvars>>

\* DepWalker.walk: the queue is empty, the loop ends and root is returned.
WalkReturn ==
    /\ wpc = "walking"
    /\ queue = <<>>
    /\ wpc' = "idle"
    /\ UNCHANGED <<index, wcfg, queue, heap, nodes, futures, submits,
                   known_conflicts, already_chosen, wargs, werr, fetches,
                   walked, nenq, nwalks>>
    /\ UNCHANGED <<cvars, xvars>>

\* DepWalker._pick_a_version
_pick_a_version(req, package, chosen, installed) ==
    _find_compatible_version(package, req.spec, wcfg.python_version,
                             wcfg.trim_newer, chosen[package.name],
                             installed[package.name])

\* walk: the loop over deps[k ..] of the node being discovered; stops at a
\* dependency whose "extra" comparison is not "==".
RECURSIVE EnqueueDeps(_, _, _, _, _, _, _)
EnqueueDeps(deps, k, q, f, node, req, include_extras) ==
    IF k > Len(deps) THEN [queue |-> q, futures |-> f, err |-> ""]
    ELSE IF ExtraAssertFails(deps[k].marker)
         THEN [queue |-> q, futures |-> f, err |-> "AssertionError"]
    ELSE IF Wanted(deps[k], req, include_extras)
         THEN LET name == canonicalize_name(deps[k].name)
              IN  EnqueueDeps(deps, k + 1,
                              Enqueued(q, QueueEntry(node, name, deps[k])),
                              Submit(f, name), node, req, include_extras)
    ELSE EnqueueDeps(deps, k + 1, q, f, node, req, include_extras)

\* What one iteration of walk's loop leaves behind.
Now(rest) ==
    [queue |-> rest, heap |-> heap, nodes |-> nodes, futures |-> futures,
     known_conflicts |-> known_conflicts, already_chosen |-> already_chosen,
     wpc |-> "walking", werr |-> "", fetches |-> fetches, walked |-> walked]
Raise(st, err) == [st EXCEPT !.wpc = "idle", !.werr = err]

\* walk: the key of the chosen version.
KeyOf(e, package, v) ==
    IF HasRelease(package, v) THEN Key(package.name, v, e.req.extras)
    ELSE KeyNone(e.req.name, v)

HasFile(package, v, file_type) ==
    IF HasRelease(package, v)
    THEN PyBool(FirstOfType(ReleaseOf(package, v).files, file_type, 1) # 0)
    ELSE "None"

\* A lookup that never finds the key.
KnownNever(key) == FALSE
\* walk: self.nodes.get(key) is not None
Known(key) == key \in DOMAIN nodes

\* A walk that ignores the done flag.
IsDoneNever(h, id) == FALSE
\* walk: node.done
IsDone(h, id) == h[id].done

\* walk: get or create the node of key; the result is [heap, nodes, id].
GetNode(key, e, package, v) ==
    IF Known(key)
    THEN [heap |-> heap, nodes |-> nodes, id |-> nodes[key]]
    ELSE [heap |-> Append(heap, DepNode(package.name, v,
                                        HasFile(package, v, "SDIST"),
                                        HasFile(package, v, "BDIST_WHEEL"),
                                        e.req.extras)),
          nodes |-> (key :> (Len(heap) + 1)) @@ nodes,
          id |-> Len(heap) + 1]

\* A walk that records no conflict.
ConflictingNever(cur, v) == FALSE
\* walk: cur is not None and cur != key[1]
Conflicting(cur, v) == cur # 0 /\ cur # v

\* walk: from the key to the end of the iteration, for entry e and version v.
Visit(e, rest, package, v) ==
    LET key == KeyOf(e, package, v)
        cur == already_chosen[key.name]
        conflicts == IF Conflicting(cur, v)
                     THEN known_conflicts \cup {key.name}
                     ELSE known_conflicts
        got == GetNode(key, e, package, v)
        edge == DepEdge(got.id, e.req.spec, e.req.marker)
        linked == [got.heap EXCEPT ![e.parent].deps = Append(@, edge)]
        st == [Now(rest) EXCEPT !.heap = linked, !.nodes = got.nodes,
                                !.known_conflicts = conflicts,
                                !.already_chosen = [already_chosen EXCEPT ![key.name] = v]]
        d == _fetch_single_deps(package, v)
        fetched == [st EXCEPT !.fetches =
                       Append(@, [key |-> key, access |-> d.access, err |-> d.err])]
        r == EnqueueDeps(d.deps, 1, rest, futures, got.id, e.req, wargs.include_extras)
        queued == [fetched EXCEPT !.queue = r.queue, !.futures = r.futures]
    IN  IF IsDone(linked, got.id) THEN st
        ELSE IF wcfg.only_first THEN [st EXCEPT !.wpc = "idle"]
        ELSE IF d.err # "" THEN Raise(fetched, d.err)
        ELSE IF r.err # "" THEN Raise(queued, r.err)
        ELSE [queued EXCEPT !.heap[got.id].done = TRUE,
                            !.walked = Append(@, key)]

\* walk: one iteration of the loop for entry e, popped from the queue.
Iteration(e, rest) ==
    IF e.req.marker # NoMarker /\ ~_do_markers_match(e.req.marker, wcfg.python_version)
    THEN Now(rest)
    ELSE IF futures[e.name] = "failed" THEN Raise(Now(rest), "fetch failed")
    ELSE LET package == index[e.name]
             pick == _pick_a_version(e.req, package, already_chosen, wargs.installed)
         IN  IF pick.err # "" THEN Raise(Now(rest), pick.err)
             ELSE IF ~HasRelease(package, pick.v) /\ ~is_canonical(e.req.name)
                  THEN Raise(Now(rest), "AssertionError")
             ELSE Visit(e, rest, package, pick.v)

\* A walk that waits for the future before it looks at the marker.
ReadyAfterFetch(e) == futures[e.name] \in {"ok", "failed"}
\* A fut.result() that never returns for a fetch that raised.
ReadyWhenOk(e) ==
    \/ e.req.marker # NoMarker /\ ~_do_markers_match(e.req.marker, wcfg.python_version)
    \/ futures[e.name] = "ok"
\* fut.result() returns only when the fetch of the name has finished; a
\* requirement whose marker does not match never waits for it.
Ready(e) ==
    \/ e.req.marker # NoMarker /\ ~_do_markers_match(e.req.marker, wcfg.python_version)
    \/ futures[e.name] \in {"ok", "failed"}

\* DepWalker.walk: one iteration of "while self.queue".
WalkStep ==
    /\ wpc = "walking"
    /\ queue # <<>>
    /\ Ready(Head(queue))
    /\ \E st \in {Iteration(Head(queue), Tail(queue))} :
           /\ queue' = st.queue
           /\ heap' = st.heap
           /\ nodes' = st.nodes
           /\ futures' = st.futures
           /\ submits' = Submitted(futures, st.futures)
           /\ known_conflicts' = st.known_conflicts
           /\ already_chosen' = st.already_chosen
           /\ wpc' = st.wpc
           /\ werr' = st.werr
           /\ fetches' = st.fetches
           /\ walked' = st.walked
    /\ UNCHANGED <<index, wcfg, wargs, nenq, nwalks>>
    /\ UNCHANGED <<cvars, xvars>>

WalkerNext ==
    \/ \E reqs \in RootLists : enqueue(reqs)
    \/ \E name \in WNames : FutureDone(name)
    \/ \E include_extras \in BOOLEAN, installed \in Callbacks :
          WalkStart(include_extras, installed)
    \/ WalkStep
    \/ WalkReturn

(***************************************************************************)
(* Version selection: _find_compatible_version called on a package of one  *)
(* or more releases, then again after a newer release has been published.  *)
(***************************************************************************)
MaxReleases == 2   \* releases of the package at the first call

\* upload_time values (dates as yyyymmdd) and trim_newer cutoffs (0 is None)
UploadTimes == {20190101, 20200101}
Cutoffs == {0, 20190601}

Uploaded(t, rp) == FileEntry("SDIST", rp, t, 0, <<>>)

\* The files of a release: none; files of the JSON index, which carry upload
\* times; a file of the HTML index, with data-requires-python and no time.
ReleaseFiles ==
    {<<>>}
    \cup {<<Uploaded(t, NoRP)>> : t \in UploadTimes}
    \cup {<<Uploaded(20200101, NoRP), Uploaded(20190101, NoRP)>>}
    \cup {<<Uploaded(0, rp)>> : rp \in {RP({<<"<", "3">>}), RP({<<">=", "3">>}), BadRP}}

\* Packages as parse_index builds them: release k has version k, ascending.
Packages(n) ==
    {Package("foo", [k \in 1 .. n |-> Files(k, fs[k])]) : fs \in [1 .. n -> ReleaseFiles]}

FindArgs ==
    [specifiers : {{}, {<<"==", 1>>}, {<<">=", 2>>}, {<<"<", 1>>}},
     python_version : {"3.6"},
     trim_newer : Cutoffs,
     ac : {0, 1, 2},
     cur : {0, 2, 9}]

NotCalled == [err |-> "not called", v |-> 0]

FindInit ==
    /\ fpkg \in UNION {Packages(n) : n \in 1 .. MaxReleases}
    /\ fargs \in FindArgs
    /\ fout = NotCalled
    /\ fprev = NotCalled

\* _find_compatible_version(package, specifiers, python_version, trim_newer,
\* already_chosen, current_versions_callback)
FindCompatibleVersion ==
    /\ fout = NotCalled
    /\ fout' = _find_compatible_version(fpkg, fargs.specifiers, fargs.python_version,
                                        fargs.trim_newer, fargs.ac, fargs.cur)
    /\ UNCHANGED <<fpkg, fargs, fprev>>
    /\ UNCHANGED <<cvars, wvars, ovars>>

\* The index publishes a release newer than every release of the package.
PublishNewer(files) ==
    /\ fout # NotCalled
    /\ fprev = NotCalled
    /\ fpkg' = [fpkg EXCEPT !.releases =
                   Append(@, Files(Len(fpkg.releases) + 1, files))]
    /\ fprev' = fout
    /\ fout' = NotCalled
    /\ UNCHANGED fargs
    /\ UNCHANGED <<cvars, wvars, ovars>>

FindNext ==
    \/ FindCompatibleVersion
    \/ \E files \in ReleaseFiles : PublishNewer(files)

(***************************************************************************)
(* The index parser: releases.async_parse_index on a document of entries.  *)
(***************************************************************************)
MaxEntries == 3    \* entries of the index document

\* The version strings of the document; "1" and "1.0" are two spellings of
\* one version.
VersionStrings == {"1", "1.0", "2"}
\* packaging.version.parse
parse_version(v) == IF v = "2" THEN 2 ELSE 1
\* The rank of a version string in string order.
StringRank(v) == IF v = "1" THEN 1 ELSE IF v = "1.0" THEN 2 ELSE 3

\* An entry: the directory part of its URL (by its rank in string order), its
\* extension, whether its basename carries a numeric version, and its version
\* string (in the JSON index, the key of the release that lists it).
IndexEntries ==
    [dir : {1, 2}, ext : {".tar.gz", ".whl"}, versioned : BOOLEAN,
     version : VersionStrings]

\* The rank of the basename in string order: foo-1-py3-none-any.whl,
\* foo-1.0-py3-none-any.whl, foo-1.0.tar.gz, foo-1.tar.gz,
\* foo-2-py3-none-any.whl, foo-2.tar.gz, foo-py3-none-any.whl, foo.tar.gz
\* ('-' sorts before '.', '.' before digits, digits before letters).
Basename(e) ==
    IF ~e.versioned THEN (IF e.ext = ".whl" THEN 7 ELSE 8)
    ELSE IF e.version = "1" THEN (IF e.ext = ".whl" THEN 1 ELSE 4)
    ELSE IF e.version = "1.0" THEN (IF e.ext = ".whl" THEN 2 ELSE 3)
    ELSE (IF e.ext = ".whl" THEN 5 ELSE 6)

UnexpectedFilename == [err |-> "UnexpectedFilename"]

\* releases.guess_file_type
guess_file_type(e) ==
    IF e.ext = ".whl" THEN [err |-> "", file_type |-> "BDIST_WHEEL"]
    ELSE IF ~e.versioned THEN UnexpectedFilename
    ELSE [err |-> "", file_type |-> "SDIST"]

\* releases.guess_version
guess_version(e) ==
    IF e.versioned THEN [err |-> "", version |-> e.version] ELSE UnexpectedFilename

\* The FileEntry fields that take part in ordering, in field order.
Entry(e, file_type, version) ==
    [err |-> "",
     fe |-> [url |-> <<e.dir, Basename(e)>>, basename |-> Basename(e),
             file_type |-> file_type, version |-> version]]

\* FileEntry.from_attrs
from_attrs(e) ==
    IF guess_file_type(e).err # "" \/ guess_version(e).err # "" THEN UnexpectedFilename
    ELSE Entry(e, guess_file_type(e).file_type, guess_version(e).version)

\* FileEntry.from_json
from_json(k, e) ==
    IF guess_file_type(e).err # "" THEN UnexpectedFilename
    ELSE Entry(e, guess_file_type(e).file_type, k)

FromEntry(e, use_json) == IF use_json THEN from_json(e.version, e) ELSE from_attrs(e)

\* A handler that swallows UnexpectedFilename in strict mode too.
SwallowedAlways(strict) == TRUE
\* except UnexpectedFilename: whether the error is swallowed.
Swallowed(strict) == ~strict

\* The entries that were made into a FileEntry, in document order.
RECURSIVE Gathered(_, _, _)
Gathered(doc, use_json, k) ==
    IF k > Len(doc) THEN <<>>
    ELSE LET p == FromEntry(doc[k], use_json)
         IN  (IF p.err = "" THEN <<p.fe>> ELSE <<>>) \o Gathered(doc, use_json, k + 1)

\* The release keys: of the HTML index, the parsed versions of the gathered
\* entries; of the JSON index, the parsed version of every key with a
\* non-empty file list.
ReleaseKeys(doc, use_json) ==
    IF use_json THEN {parse_version(doc[k].version) : k \in 1 .. Len(doc)}
    ELSE LET g == Gathered(doc, use_json, 1)
         IN  {parse_version(g[k].version) : k \in 1 .. Len(g)}

\* The document lists the files of a JSON release under its key; the keys of
\* obj["releases"] come in the order of their first entry.
FirstListed(doc, key) ==
    CHOOSE k \in 1 .. Len(doc) :
        doc[k].version = key /\ \A j \in 1 .. k - 1 : doc[j].version # key
\* releases[pv] = PackageRelease(...) for every key: the release of pv is the
\* one made for the last key that parses to pv.
LastKey(doc, pv) ==
    LET keys == {doc[k].version : k \in {j \in 1 .. Len(doc) :
                                            parse_version(doc[j].version) = pv}}
    IN  CHOOSE s \in keys : \A t \in keys : FirstListed(doc, t) <= FirstListed(doc, s)
\* The files appended to releases[pv].
ReleaseFilesOf(doc, use_json, pv) ==
    IF use_json
    THEN SelectSeq(Gathered(doc, use_json, 1), LAMBDA fe : fe.version = LastKey(doc, pv))
    ELSE SelectSeq(Gathered(doc, use_json, 1), LAMBDA fe : parse_version(fe.version) = pv)

\* dict(sorted(releases.items()))
SortedKeys(keys) ==
    CHOOSE q \in [1 .. Cardinality(keys) -> keys] :
        \A j, k \in 1 .. Cardinality(keys) : j < k => q[j] < q[k]

FileType(file_type) == IF file_type = "SDIST" THEN 1 ELSE 7

\* FileEntry.__lt__ of dataclass(order=True): tuples of the fields in order.
FileEntryLt(a, b) ==
    \/ a.url[1] < b.url[1]
    \/ a.url[1] = b.url[1] /\ a.url[2] < b.url[2]
    \/ a.url = b.url /\ a.basename < b.basename
    \/ a.url = b.url /\ a.basename = b.basename
       /\ FileType(a.file_type) < FileType(b.file_type)
    \/ a.url = b.url /\ a.basename = b.basename /\ a.file_type = b.file_type
       /\ StringRank(a.version) < StringRank(b.version)

RECURSIVE Inserted(_, _)
Inserted(fe, files) ==
    IF files = <<>> THEN <<fe>>
    ELSE IF FileEntryLt(Head(files), fe) THEN <<Head(files)>> \o Inserted(fe, Tail(files))
    ELSE <<fe>> \o files

\* A release whose files stay in document order.
Unsorted(files) == files
\* rel.files.sort()
RECURSIVE Sorted(_)
Sorted(files) ==
    IF files = <<>> THEN <<>> ELSE Inserted(Head(files), Sorted(Tail(files)))

\* releases.async_parse_index
async_parse_index(doc, strict, use_json) ==
    IF \E k \in 1 .. Len(doc) : FromEntry(doc[k], use_json).err # "" /\ ~Swallowed(strict)
    THEN UnexpectedFilename
    ELSE LET keys == SortedKeys(ReleaseKeys(doc, use_json))
         IN  [err |-> "",
              package |-> Package("foo", [n \in 1 .. Len(keys) |->
                  Files(keys[n], Sorted(ReleaseFilesOf(doc, use_json, keys[n])))])]

NotParsed == [err |-> "not called"]

RECURSIVE Documents(_)
Documents(n) ==
    IF n = 0 THEN {<<>>}
    ELSE Documents(n - 1) \cup
         {Append(d, e) : d \in {x \in Documents(n - 1) : Len(x) = n - 1}, e \in IndexEntries}

ParseInit ==
    /\ idoc \in Documents(MaxEntries)
    /\ iargs \in [strict : BOOLEAN, use_json : BOOLEAN]
    /\ iout = NotParsed

\* parse_index(pkg, cache, strict, use_json)
ParseIndex ==
    /\ iout = NotParsed
    /\ iout' = async_parse_index(idoc, iargs.strict, iargs.use_json)
    /\ UNCHANGED <<idoc, iargs>>
    /\ UNCHANGED <<cvars, wvars, fvars, avars, kvars>>

(***************************************************************************)
(* The extraction cache: archive.extract_and_get_names, called by several  *)
(* processes on the same archive and the same HONESTY_EXTDIR.              *)
(***************************************************************************)
MaxExtracts == 3   \* calls of extract_and_get_names

\* The members of the archive, in archive order.
Members == <<"setup.py", "pyproject.toml">>
Patterns == {"*.py", "*.toml"}

NotCalling == [pc |-> "idle", found |-> FALSE, member |-> 0, strip_top_level |-> FALSE,
           patterns |-> "*.py", saw |-> <<>>]

ArchiveInit ==
    /\ sentinel = FALSE
    /\ tree = [k \in 1 .. Len(Members) |-> "absent"]
    /\ calls = [c \in 1 .. MaxExtracts |-> NotCalling]

\* os.path.exists(archive_root + ".done")
ExtractAndGetNames(c, strip_top_level, patterns) ==
    /\ calls[c].pc = "idle"
    /\ calls' = [calls EXCEPT ![c] =
                   [pc |-> IF sentinel THEN "touch" ELSE "unpack",
                    found |-> sentinel, member |-> 1,
                    strip_top_level |-> strip_top_level, patterns |-> patterns,
                    saw |-> <<>>]]
    /\ UNCHANGED <<sentinel, tree>>
    /\ UNCHANGED <<cvars, wvars, fvars, ivars, kvars>>

\* shutil.unpack_archive opens the next member's file for writing.
UnpackOpen(c) ==
    /\ calls[c].pc = "unpack"
    /\ tree' = [tree EXCEPT ![calls[c].member] = "partial"]
    /\ calls' = [calls EXCEPT ![c].pc = "write"]
    /\ UNCHANGED sentinel
    /\ UNCHANGED <<cvars, wvars, fvars, ivars, kvars>>

\* shutil.unpack_archive has written the member's data.
UnpackWrite(c) ==
    /\ calls[c].pc = "write"
    /\ tree' = [tree EXCEPT ![calls[c].member] = "whole"]
    /\ calls' = [calls EXCEPT ![c].member = @ + 1,
                              ![c].pc = IF calls[c].member = Len(Members)
                                        THEN "touch" ELSE "unpack"]
    /\ UNCHANGED sentinel
    /\ UNCHANGED <<cvars, wvars, fvars, ivars, kvars>>

\* shutil.unpack_archive raises: the call ends there.
UnpackRaises(c) ==
    /\ calls[c].pc \in {"unpack", "write"}
    /\ calls' = [calls EXCEPT ![c].pc = "raised"]
    /\ UNCHANGED <<sentinel, tree>>
    /\ UNCHANGED <<cvars, wvars, fvars, ivars, kvars>>

\* with open(archive_root + ".done", "w"): pass
TouchDone(c) ==
    /\ calls[c].pc = "touch"
    /\ sentinel' = TRUE
    /\ calls' = [calls EXCEPT ![c].pc = "walk"]
    /\ UNCHANGED tree
    /\ UNCHANGED <<cvars, wvars, fvars, ivars, kvars>>

\* os.walk(archive_root) and the return.
Walk(c) ==
    /\ calls[c].pc = "walk"
    /\ calls' = [calls EXCEPT ![c].pc = "returned", ![c].saw = tree]
    /\ UNCHANGED <<sentinel, tree>>
    /\ UNCHANGED <<cvars, wvars, fvars, ivars, kvars>>

ArchiveNext ==
    \/ \E c \in 1 .. MaxExtracts, strip_top_level \in BOOLEAN, patterns \in Patterns :
          ExtractAndGetNames(c, strip_top_level, patterns)
    \/ \E c \in 1 .. MaxExtracts : UnpackOpen(c)
    \/ \E c \in 1 .. MaxExtracts : UnpackWrite(c)
    \/ \E c \in 1 .. MaxExtracts : UnpackRaises(c)
    \/ \E c \in 1 .. MaxExtracts : TouchDone(c)
    \/ \E c \in 1 .. MaxExtracts : Walk(c)

(***************************************************************************)
(* The cross-distribution check: checker.run_checker and cmdline.check.    *)
(***************************************************************************)
MaxFiles == 3      \* files of the release checked first

\* The members of an archive are <<relname, digest>> pairs, a relname being
\* its sequence of path components.
SdistArchives ==
    {{}, {<<<<"foo-1", "a.py">>, 1>>}, {<<<<"foo-1", "a.py">>, 2>>},
     {<<<<"foo-1", "a.py">>, 1>>, <<<<"foo-1", "src", "b.py">>, 1>>}}
BdistArchives ==
    {{}, {<<<<"a.py">>, 1>>}, {<<<<"a.py">>, 2>>}, {<<<<"b.py">>, 1>>},
     {<<<<"a.py">>, 1>>, <<<<"b.py">>, 1>>}}

CheckedFile(file_type, members) == [file_type |-> file_type, members |-> members]
CheckedFiles ==
    {CheckedFile("SDIST", m) : m \in SdistArchives}
    \cup {CheckedFile(t, m) : t \in {"BDIST_WHEEL", "BDIST_EGG", "BDIST_WININST"},
                              m \in BdistArchives}

\* archive.extract_and_get_names: srckey of a relname
srckey(relname, strip_top_level) ==
    LET stripped == IF strip_top_level /\ Len(relname) > 1 THEN Tail(relname) ELSE relname
    IN  IF Len(stripped) > 1 /\ Head(stripped) = "src" THEN Tail(stripped) ELSE stripped

\* archive.archive_hashes: the set of <<srcname, sha>> items of the dict
archive_hashes(members, strip_top_level) ==
    {<<srckey(m[1], strip_top_level), m[2]>> : m \in members}

Keys(hashes) == {i[1] : i \in hashes}

\* sdist_hashes after the loop over local_paths: those of the last sdist.
RECURSIVE LastHashes(_, _, _)
LastHashes(files, k, hashes) ==
    IF k > Len(files) THEN hashes
    ELSE IF files[k].file_type = "SDIST"
         THEN LastHashes(files, k + 1, archive_hashes(files[k].members, TRUE))
         ELSE LastHashes(files, k + 1, hashes)

Bit(n, k) == (n \div (2 ^ k)) % 2
\* Result codes that are added up.
Sum(a, b) == a + b
\* a | b on result codes
BitOr(a, b) ==
    LET or(k) == IF Bit(a, k) = 1 \/ Bit(b, k) = 1 THEN 2 ^ k ELSE 0
    IN  or(0) + or(1) + or(2) + or(3)

\* return 1 / rc |= 4 / rc |= 8
NoSdistRc == 1
MissingRc == 4
DiffersRc == 8

\* A checker that compares every file that is not an sdist.
ComparedAll(file_type) == file_type # "SDIST"
\* The files run_checker hashes against the sdist.
Compared(file_type) == file_type \in {"BDIST_WHEEL", "BDIST_EGG"}

\* checker.run_checker on the files of the release: rc and the number of
\* cache.fetch calls.
run_checker(files) ==
    LET sdists == SelectSeq(files, LAMBDA f : f.file_type = "SDIST")
        sdist_hashes == LastHashes(files, 1, {})
        bdists == {k \in 1 .. Len(files) : Compared(files[k].file_type)}
        this_hashes(k) == archive_hashes(files[k].members, FALSE)
        missing == \E k \in bdists : \E i \in this_hashes(k) :
                      i[1] \notin Keys(sdist_hashes)
        differs == \E k \in bdists : \E i \in this_hashes(k) :
                      i[1] \in Keys(sdist_hashes) /\ i \notin sdist_hashes
    IN  IF sdists = <<>> THEN [rc |-> NoSdistRc, fetched |-> 0]
        ELSE IF Len(sdists) = Len(files) THEN [rc |-> 0, fetched |-> 0]
        ELSE [rc |-> BitOr(IF missing THEN MissingRc ELSE 0,
                           IF differs THEN DiffersRc ELSE 0),
              fetched |-> Len(files)]

\* The releases of up to n files.
RECURSIVE Releases3(_)
Releases3(n) ==
    IF n = 0 THEN {<<>>}
    ELSE Releases3(n - 1) \cup
         {Append(r, f) : r \in {x \in Releases3(n - 1) : Len(x) = n - 1}, f \in CheckedFiles}

\* Releases checked after the first one.
FollowUps ==
    {<<CheckedFile("BDIST_WHEEL", {})>>,
     <<CheckedFile("SDIST", {}), CheckedFile("BDIST_WHEEL", {<<<<"a.py">>, 1>>})>>,
     <<CheckedFile("SDIST", {<<<<"foo-1", "a.py">>, 2>>}),
       CheckedFile("BDIST_EGG", {<<<<"a.py">>, 1>>})>>}

NotChecked == [rc |-> 0, fetched |-> 0]

CheckInit ==
    /\ kpkg \in {<<r>> : r \in Releases3(MaxFiles)}
                \cup {<<r, t>> : r \in Releases3(MaxFiles - 1), t \in FollowUps}
    /\ kn = 0
    /\ kout = NotChecked
    /\ krc = 0

\* cmdline.check: rc |= run_checker(package, v, ...)
RunChecker ==
    /\ kn < Len(kpkg)
    /\ kn' = kn + 1
    /\ kout' = run_checker(kpkg[kn + 1])
    /\ krc' = BitOr(krc, run_checker(kpkg[kn + 1]).rc)
    /\ UNCHANGED kpkg
    /\ UNCHANGED <<cvars, wvars, fvars, ivars, avars>>

(***************************************************************************)
(* The two specifications: the cache under concurrent fetches, and one     *)
(* walker over a fixed index.                                              *)
(***************************************************************************)
vars == <<cvars, wvars, xvars>>

\* The cache's specification leaves a walker constructed and unused, the
\* walker's leaves the cache directory untouched.
WalkerUnused ==
    /\ WalkerInit
    /\ index = ChainIndex
    /\ ~wcfg.only_first
FindUnused ==
    /\ fout = NotCalled
    /\ fprev = NotCalled
    /\ fpkg = Package("foo", <<Files(1, <<>>)>>)
    /\ fargs = [specifiers |-> {}, python_version |-> "3.6", trim_newer |-> 0,
                ac |-> 0, cur |-> 0]
CacheUnused ==
    /\ CacheInit
    /\ url = ""

ParseUnused ==
    /\ idoc = <<>>
    /\ iargs = [strict |-> FALSE, use_json |-> FALSE]
    /\ iout = NotParsed
CheckUnused ==
    /\ kpkg = <<>>
    /\ kn = 0
    /\ kout = NotChecked
    /\ krc = 0
OthersUnused == ParseUnused /\ ArchiveInit /\ CheckUnused
InitCache == CacheInit /\ WalkerUnused /\ FindUnused /\ OthersUnused
SpecCache == InitCache /\ [][CacheNext]_vars

InitWalk == CacheUnused /\ WalkerInit /\ FindUnused /\ OthersUnused
SpecWalk == InitWalk /\ [][WalkerNext]_vars

InitFind == CacheUnused /\ WalkerUnused /\ FindInit /\ OthersUnused

InitParse == CacheUnused /\ WalkerUnused /\ FindUnused /\ ParseInit /\ ArchiveInit /\ CheckUnused
SpecParse == InitParse /\ [][ParseIndex]_vars

InitArchive == CacheUnused /\ WalkerUnused /\ FindUnused /\ ParseUnused /\ ArchiveInit /\ CheckUnused

InitCheck == CacheUnused /\ WalkerUnused /\ FindUnused /\ ParseUnused /\ ArchiveInit /\ CheckInit
SpecCheck == InitCheck /\ [][RunChecker]_vars
SpecArchive == InitArchive /\ [][ArchiveNext]_vars
SpecFind == InitFind /\ [][FindNext]_vars

\* The walk is one thread that runs until it returns or raises, and each
\* pool thread runs its fetch to the end: while any of them can take a step,
\* one does.
Running ==
    \/ WalkStep
    \/ WalkReturn
    \/ \E name \in WNames : FutureDone(name)
WalkFairness == WF_vars(Running)

\* The fair walker is followed through fewer calls.
FairEnqueues == 1
FairWalks == 1
WalkerNextFair ==
    \/ \E reqs \in RootLists : nenq < FairEnqueues /\ enqueue(reqs)
    \/ \E name \in WNames : FutureDone(name)
    \/ \E include_extras \in BOOLEAN, installed \in Callbacks :
          nwalks < FairWalks /\ WalkStart(include_extras, installed)
    \/ WalkStep
    \/ WalkReturn
SpecWalkFair == InitWalk /\ [][WalkerNextFair]_vars /\ WalkFairness

(***************************************************************************)
(* Walker: the claims.                                                     *)
(***************************************************************************)
Objects == 2 .. Len(heap)
Incoming(t) ==
    UNION {{<<i, j>> : j \in {x \in 1 .. Len(heap[i].deps) : heap[i].deps[x].target = t}}
           : i \in 1 .. Len(heap)}
Last(seq) == seq[Len(seq)]

\* A step of the walk that links the dequeued requirement into the graph.
Links == wpc = "walking" /\ queue # <<>> /\ heap' # heap
LinkedEdge == Last(heap'[Head(queue).parent].deps)
OneEdgeAdded ==
    /\ heap'[Head(queue).parent].deps = Append(heap[Head(queue).parent].deps, LinkedEdge)
    /\ \A i \in 1 .. Len(heap) :
          i # Head(queue).parent => heap'[i].deps = heap[i].deps
SameObject(old, new) ==
    /\ new.name = old.name /\ new.version = old.version
    /\ new.has_sdist = old.has_sdist /\ new.has_bdist = old.has_bdist
    /\ new.dep_extras = old.dep_extras

\* C9: the node map holds at most one DepNode per key: the node objects and
\* the keys of self.nodes correspond one to one and each node carries its
\* key's name and version; a dequeued requirement that resolves to an existing
\* key reuses that object and only adds an edge to it, one that resolves to a
\* new key creates exactly one object; no node is ever removed or replaced.
C9_OneNodePerKey ==
    /\ [](/\ \A k \in DOMAIN nodes :
               /\ nodes[k] \in Objects
               /\ heap[nodes[k]].name = k.name
               /\ heap[nodes[k]].version = k.version
          /\ \A k1, k2 \in DOMAIN nodes : nodes[k1] = nodes[k2] => k1 = k2
          /\ \A o \in Objects : \E k \in DOMAIN nodes : nodes[k] = o)
    /\ [][Links =>
            /\ OneEdgeAdded
            /\ \E k \in DOMAIN nodes' :
                  /\ nodes'[k] = LinkedEdge.target
                  /\ k.name = canonicalize_name(Head(queue).req.name)
                  /\ k.extras.some => k.extras.set = Head(queue).req.extras
                  /\ IF k \in DOMAIN nodes
                     THEN /\ nodes' = nodes
                          /\ Len(heap') = Len(heap)
                     ELSE /\ DOMAIN nodes' = DOMAIN nodes \cup {k}
                          /\ nodes'[k] = Len(heap) + 1
                          /\ Len(heap') = Len(heap) + 1]_vars
    /\ [][/\ Len(heap') >= Len(heap)
          /\ \A k \in DOMAIN nodes : k \in DOMAIN nodes' /\ nodes'[k] = nodes[k]
          /\ \A o \in 1 .. Len(heap) : SameObject(heap[o], heap'[o])]_vars

\* A node that two edges point to: its key was resolved twice.
C9_Witness ==
    \E t \in Objects : Cardinality(Incoming(t)) >= 2

\* C10: discovery of a key's requirements is completed at most once, and
\* once a node is done, a dequeued requirement that resolves to it attaches
\* one edge from its parent and nothing else happens: no requirements are
\* fetched, nothing is enqueued or submitted, and the walk goes on.
C10_DiscoveredOnce ==
    /\ [](\A i, j \in 1 .. Len(walked) : walked[i] = walked[j] => i = j)
    /\ [][(/\ Links
           /\ LinkedEdge.target <= Len(heap)
           /\ heap[LinkedEdge.target].done)
          => /\ OneEdgeAdded
             /\ Len(heap') = Len(heap)
             /\ queue' = Tail(queue)
             /\ fetches' = fetches
             /\ walked' = walked
             /\ futures' = futures
             /\ submits' = submits
             /\ wpc' = "walking"]_vars

\* One walk over the cyclic index has returned without error: three nodes
\* were discovered, and two of them were reached a second time, after they
\* were done.
C10_Witness ==
    /\ index = CycleIndex
    /\ wpc = "idle" /\ werr = "" /\ queue = <<>> /\ nwalks = 1
    /\ Len(walked) = 3 /\ Len(fetches) = 3
    /\ \E t, u \in Objects :
          /\ t # u
          /\ heap[t].done /\ Cardinality(Incoming(t)) = 2
          /\ heap[u].done /\ Cardinality(Incoming(u)) = 2

\* C11 (as stated): over an acyclic index whose futures all complete with a
\* package, a walk ends with an empty queue.
C11_EndsWithEmptyQueue ==
    [][(/\ index = ChainIndex
        /\ \A n \in WNames : futures[n] # "failed"
        /\ wpc = "walking" /\ wpc' = "idle")
       => queue' = <<>>]_vars

\* C11: every walk terminates, over acyclic and cyclic indexes alike, once
\* the futures complete; a walk that returns without raising, with only_first
\* off, leaves the queue empty, and a requirement that reaches a done node
\* enqueues nothing.
C11_WalkTerminates ==
    /\ (wpc = "walking") ~> (wpc = "idle")
    /\ [][(wpc = "walking" /\ wpc' = "idle" /\ werr' = "" /\ ~wcfg.only_first)
          => queue' = <<>>]_vars
    /\ [][(Links /\ LinkedEdge.target <= Len(heap) /\ heap[LinkedEdge.target].done)
          => queue' = Tail(queue)]_vars

\* A walk over the cyclic index has returned with an empty queue after
\* discovering at least two nodes.
C11_Witness ==
    /\ index = CycleIndex /\ ~wcfg.only_first
    /\ nwalks >= 1 /\ wpc = "idle" /\ werr = "" /\ queue = <<>>
    /\ Len(walked) >= 2
    /\ \E t \in Objects : Cardinality(Incoming(t)) >= 2

\* The walk as the claim describes it: a sequential breadth-first traversal
\* that takes the queue in FIFO order and never waits, each index name's
\* future having returned its package.  A traversal state is the queue, the
\* node objects, the key map, the versions chosen and whether it has stopped.
Traversal == [queue |-> queue, heap |-> heap, nodes |-> nodes,
              chosen |-> already_chosen, stopped |-> wpc = "idle"]
Stop(t) == [t EXCEPT !.stopped = TRUE]

RECURSIVE FifoChildren(_, _, _, _)
FifoChildren(deps, k, node, req) ==
    IF k > Len(deps) THEN [entries |-> <<>>, ok |-> TRUE]
    ELSE IF \E j \in 1 .. Len(deps[k].marker) :
               deps[k].marker[j].var = "extra" /\ deps[k].marker[j].op # "=="
         THEN [entries |-> <<>>, ok |-> FALSE]
    ELSE LET more == FifoChildren(deps, k + 1, node, req)
             extra == ExtraStr(deps[k].marker)
             mine == IF extra = "" \/ (wargs.include_extras /\ extra \in req.extras)
                     THEN <<QueueEntry(node, canonicalize_name(deps[k].name), deps[k])>>
                     ELSE <<>>
         IN  [entries |-> mine \o more.entries, ok |-> more.ok]

FifoVisit(t, e, rest, v) ==
    LET package == index[e.name]
        public == HasRelease(package, v)
        key == IF public THEN Key(e.name, v, e.req.extras) ELSE KeyNone(e.req.name, v)
        known == key \in DOMAIN t.nodes
        id == IF known THEN t.nodes[key] ELSE Len(t.heap) + 1
        made == IF known THEN t.heap
                ELSE Append(t.heap, DepNode(e.name, v, HasFile(package, v, "SDIST"),
                                            HasFile(package, v, "BDIST_WHEEL"),
                                            e.req.extras))
        linked == [made EXCEPT ![e.parent].deps =
                      Append(@, DepEdge(id, e.req.spec, e.req.marker))]
        after == [t EXCEPT !.queue = rest, !.heap = linked,
                           !.nodes = IF known THEN @ ELSE (key :> id) @@ @,
                           !.chosen[key.name] = v]
        d == _fetch_single_deps(package, v)
        children == FifoChildren(d.deps, 1, id, e.req)
    IN  IF linked[id].done THEN after
        ELSE IF wcfg.only_first \/ d.err # "" THEN Stop(after)
        ELSE IF ~children.ok
             THEN Stop([after EXCEPT !.queue = rest \o children.entries])
        ELSE [after EXCEPT !.queue = rest \o children.entries,
                           !.heap[id].done = TRUE]

FifoStep(t) ==
    LET e == Head(t.queue)
        rest == Tail(t.queue)
    IN  IF e.req.marker # NoMarker /\ ~_do_markers_match(e.req.marker, wcfg.python_version)
        THEN [t EXCEPT !.queue = rest]
        ELSE IF e.name \notin IndexNames THEN Stop([t EXCEPT !.queue = rest])
        ELSE LET pick == _find_compatible_version(index[e.name], e.req.spec,
                             wcfg.python_version, wcfg.trim_newer,
                             t.chosen[e.name], wargs.installed[e.name])
             IN  IF pick.err # "" THEN Stop([t EXCEPT !.queue = rest])
                 ELSE IF ~HasRelease(index[e.name], pick.v) /\ ~is_canonical(e.req.name)
                      THEN Stop([t EXCEPT !.queue = rest])
                 ELSE FifoVisit(t, e, rest, pick.v)

\* The graph the traversal ends with.
RECURSIVE FifoGraph(_)
FifoGraph(t) ==
    IF t.stopped \/ t.queue = <<>> THEN t.heap ELSE FifoGraph(FifoStep(t))

\* The future of the dequeued entry came out as the traversal takes it: a
\* package for a name the index has, an error for any other name.
AsIndexed(e) ==
    \/ e.req.marker # NoMarker /\ ~_do_markers_match(e.req.marker, wcfg.python_version)
    \/ e.name \in IndexNames /\ futures[e.name] = "ok"
    \/ e.name \notin IndexNames /\ futures[e.name] = "failed"

IsPrefix(p, q) == Len(p) <= Len(q) /\ SubSeq(q, 1, Len(p)) = p

\* C12: requirements are processed in FIFO order of enqueueing: enqueue
\* appends the roots in the given order, a step of the walk takes the head of
\* the queue and appends behind what was queued, and nothing else touches the
\* queue or the graph; each step of the walk, whatever futures have completed
\* by then, leaves unchanged the graph that the sequential FIFO traversal of
\* the current state ends with, so nodes and edges (with their specifiers)
\* depend on the root order and the package contents only.  On the A/B/C
\* fixture with root a the nodes are a 1, b 1, c 1 in that order and the
\* edge a -> b carries "==1".
C12_FifoDeterministic ==
    /\ [][\A reqs \in RootLists :
            (wpc = "idle" /\ nenq' = nenq + 1 /\ Len(queue') = Len(queue) + Len(reqs)
               /\ \A k \in 1 .. Len(reqs) : queue'[Len(queue) + k].req = reqs[k])
            => /\ IsPrefix(queue, queue')
               /\ \A k \in 1 .. Len(reqs) :
                     queue'[Len(queue) + k] =
                        QueueEntry(RootId, canonicalize_name(reqs[k].name), reqs[k])]_vars
    /\ [][(queue' # queue \/ heap' # heap \/ nodes' # nodes)
          => \/ wpc = "idle" /\ nenq' = nenq + 1 /\ heap' = heap /\ nodes' = nodes
             \/ wpc = "walking" /\ queue # <<>> /\ IsPrefix(Tail(queue), queue')]_vars
    /\ [][(wpc = "walking" /\ queue # <<>> /\ queue' # queue /\ AsIndexed(Head(queue)))
          => FifoGraph(Traversal') = FifoGraph(Traversal)]_vars
    /\ []((/\ index = ChainIndex /\ ~wcfg.only_first
           /\ wargs.installed = NothingInstalled
           /\ nenq = 1 /\ nwalks = 1 /\ wpc = "idle" /\ werr = ""
           /\ Len(heap[RootId].deps) = 1 /\ Len(heap) > 1 /\ heap[2].name = "a")
          => /\ [o \in 1 .. Len(heap) |-> <<heap[o].name, heap[o].version>>]
                  = <<<<"fake", 0>>, <<"a", 1>>, <<"b", 1>>, <<"c", 1>>>>
             /\ heap[2].deps = <<DepEdge(3, {<<"==", 1>>}, NoMarker)>>
             /\ heap[3].deps = <<DepEdge(4, {}, NoMarker)>>)

\* The walk of root a over the A/B/C fixture has returned.
C12_Witness ==
    /\ index = ChainIndex /\ ~wcfg.only_first
    /\ nenq = 1 /\ nwalks = 1 /\ wpc = "idle" /\ werr = ""
    /\ Len(heap) = 4 /\ heap[2].name = "a" /\ heap[4].name = "c"
    /\ Len(heap[RootId].deps) = 1
    /\ \A o \in Objects : heap[o].done

(***************************************************************************)
(* Version selection: the claims                                           *)
(***************************************************************************)
Called == fout # NotCalled
Cutoff == fargs.trim_newer
Installed == fargs.cur
Public(v) == \E k \in 1 .. Len(fpkg.releases) : fpkg.releases[k].version = v

\* Every file of the release was uploaded after the cutoff.
AllUploadedAfter(r, cutoff) ==
    /\ r.files # <<>>
    /\ \A k \in 1 .. Len(r.files) : r.files[k].upload_time > cutoff
\* Some file of the release was uploaded at or before the cutoff.
SomeUploadedBy(r, cutoff) ==
    \E k \in 1 .. Len(r.files) :
        r.files[k].upload_time # 0 /\ r.files[k].upload_time <= cutoff

\* The release admits the Python version, going by its first file that
\* declares requires_python.
AdmitsPython(r, py) ==
    LET declared == {k \in 1 .. Len(r.files) : r.files[k].requires_python.k # "none"}
    IN  \/ declared = {}
        \/ LET first == CHOOSE k \in declared : \A j \in declared : k <= j
               rp == r.files[first].requires_python
           IN  /\ rp.k = "spec"
               /\ \A c \in rp.spec : Compare(PyOrd(py), c[1], PyOrd(c[2]))

\* The releases that survive the trim_newer and requires-python filters.
Releases == {fpkg.releases[k] : k \in 1 .. Len(fpkg.releases)}
Surviving ==
    {r.version : r \in {x \in Releases :
                           /\ ~(Cutoff # 0 /\ AllUploadedAfter(x, Cutoff))
                           /\ AdmitsPython(x, fargs.python_version)}}
\* The candidates: the survivors and a non-public installed version, as far
\* as they satisfy the specifier.
Candidates ==
    {v \in Surviving \cup (IF Installed # 0 /\ ~Public(Installed) THEN {Installed} ELSE {}) :
        Contains(fargs.specifiers, v)}
MostRecent(vs) == CHOOSE v \in vs : \A w \in vs : w <= v

NewestRelease == fpkg.releases[Len(fpkg.releases)]
C14_NewerReleaseNeverOlderPick ==
    (/\ fprev.err = ""
     /\ Called
     /\ fargs.ac = 0
     /\ Installed = 0
     /\ AdmitsPython(NewestRelease, fargs.python_version)
     /\ Contains(fargs.specifiers, NewestRelease.version))
    => /\ fout.err = ""
       /\ fout.v >= fprev.v
C14_Witness ==
    /\ fprev.err = ""
    /\ fargs.ac = 0
    /\ Installed = 0
    /\ AdmitsPython(NewestRelease, fargs.python_version)
    /\ Contains(fargs.specifiers, NewestRelease.version)
    /\ fout.err = ""
    /\ fout.v = NewestRelease.version
    /\ fout.v > fprev.v

\* C15: when no release survives the trim_newer and requires-python filters,
\* version selection raises the incompatible-version error, also when a
\* non-public installed version would have satisfied the specifier.
C15_NoSurvivorIsIncompatible ==
    (Called /\ Surviving = {}) => fout = Raises("incompatible")
C15_Witness ==
    /\ Called
    /\ Surviving = {}
    /\ Installed # 0
    /\ ~Public(Installed)
    /\ Contains(fargs.specifiers, Installed)
    /\ fout.err = "incompatible"

\* C16: when some release is compatible but no candidate, the non-public
\* installed version included, satisfies the specifier, version selection
\* raises the no-matching-version error and returns no version.
C16_NoCandidateIsNoMatch ==
    (Called /\ Surviving # {} /\ Candidates = {}) =>
        fout = Raises("no matching version")
C16_Witness ==
    /\ Called
    /\ Surviving # {}
    /\ Candidates = {}
    /\ Installed # 0
    /\ ~Public(Installed)
    /\ fout.err = "no matching version"

\* C17: with trim_newer set, a release all of whose files were uploaded after
\* the cutoff is never returned, a release with a file uploaded at or before
\* the cutoff stays eligible, and of release 1 (2019-01-01) and release 2
\* (2020-01-01) with cutoff 2019-06-01 version 1 is selected.
C17_TrimNewer ==
    (Called /\ Cutoff # 0) =>
        /\ \A r \in Releases : AllUploadedAfter(r, Cutoff) => fout.v # r.version
        /\ \A r \in Releases :
              (/\ SomeUploadedBy(r, Cutoff)
               /\ AdmitsPython(r, fargs.python_version)
               /\ Contains(fargs.specifiers, r.version))
              => /\ fout.err = ""
                 /\ (fargs.ac = 0 /\ Installed = 0) => fout.v >= r.version
        /\ (/\ fpkg.releases = <<Files(1, <<Uploaded(20190101, NoRP)>>),
                                 Files(2, <<Uploaded(20200101, NoRP)>>)>>
            /\ Cutoff = 20190601
            /\ fargs.specifiers = {}
            /\ fargs.ac = 0
            /\ Installed = 0)
           => fout = Chose(1)
C17_Witness ==
    /\ Called
    /\ Cutoff = 20190601
    /\ Len(fpkg.releases) = 2
    /\ AllUploadedAfter(fpkg.releases[2], Cutoff)
    /\ SomeUploadedBy(fpkg.releases[1], Cutoff)
    /\ fargs.specifiers = {}
    /\ fout = Chose(1)

(***************************************************************************)
(* The index parser: the claims                                            *)
(***************************************************************************)
Parsed == iout # NotParsed
ParsedReleases == {iout.package.releases[n] : n \in 1 .. Len(iout.package.releases)}
Pairs(files) == {<<j, k>> \in (1 .. Len(files)) \X (1 .. Len(files)) : j < k}

\* C18 as stated: within each release of a parsed Package the files are
\* sorted by (kind, basename), an sdist before a wheel whatever their URLs.
C18_SortedByKindThenBasename ==
    (Parsed /\ iout.err = "") =>
        \A r \in ParsedReleases : \A p \in Pairs(r.files) :
            LET a == r.files[p[1]]
                b == r.files[p[2]]
            IN  \/ FileType(a.file_type) < FileType(b.file_type)
                \/ a.file_type = b.file_type /\ a.basename <= b.basename

\* C18: within each release of a parsed Package, HTML or JSON, the files are
\* sorted by URL (the first field of FileEntry), so that of an sdist and a
\* wheel the one whose URL sorts first is listed first.
C18_SortedByUrl ==
    (Parsed /\ iout.err = "") =>
        \A r \in ParsedReleases : \A p \in Pairs(r.files) :
            LET a == r.files[p[1]].url
                b == r.files[p[2]].url
            IN  \/ a[1] < b[1]
                \/ a[1] = b[1] /\ a[2] <= b[2]
C18_Witness ==
    /\ Parsed
    /\ iout.err = ""
    /\ Len(idoc) = 2
    /\ idoc[1].ext = ".tar.gz"
    /\ idoc[1].dir > idoc[2].dir
    /\ \E r \in ParsedReleases :
          /\ Len(r.files) = 2
          /\ r.files[1].file_type = "BDIST_WHEEL"
          /\ r.files[2].file_type = "SDIST"

\* C19 as stated: when an entry's basename cannot be parsed, a strict parse
\* raises UnexpectedFilename and returns no Package; a non-strict parse
\* returns a Package that holds every other entry, once for each time it is
\* listed, and none of the unparseable ones, and an HTML-parsed Package has
\* no release without files.
Unparseable(e) == ~e.versioned /\ (e.ext = ".tar.gz" \/ ~iargs.use_json)
Listed(v, dir, basename) ==
    {k \in 1 .. Len(idoc) :
        /\ ~Unparseable(idoc[k])
        /\ parse_version(idoc[k].version) = v
        /\ idoc[k].dir = dir
        /\ Basename(idoc[k]) = basename}
Held(v, dir, basename) ==
    {<<r, n>> \in ParsedReleases \X (1 .. MaxEntries + 1) :
        /\ r.version = v
        /\ n <= Len(r.files)
        /\ r.files[n].url = <<dir, basename>>}
C19_UnparseableEntry ==
    Parsed =>
        /\ (iargs.strict /\ \E k \in 1 .. Len(idoc) : Unparseable(idoc[k]))
           => iout = UnexpectedFilename
        /\ ~iargs.strict =>
              /\ iout.err = ""
              /\ \A v \in 1 .. 2, dir \in 1 .. 2, basename \in 1 .. 8 :
                    Cardinality(Held(v, dir, basename))
                        = Cardinality(Listed(v, dir, basename))
              /\ ~iargs.use_json => \A r \in ParsedReleases : r.files # <<>>
C19_Witness ==
    /\ Parsed
    /\ ~iargs.strict
    /\ ~iargs.use_json
    /\ Len(idoc) = 3
    /\ Unparseable(idoc[1]) /\ idoc[1].version = "1"
    /\ Unparseable(idoc[2]) /\ idoc[2].version = "1"
    /\ ~Unparseable(idoc[3]) /\ idoc[3].version = "2"
    /\ iout.err = ""
    /\ Len(iout.package.releases) = 1
    /\ Len(iout.package.releases[1].files) = 1

\* No two release keys of a JSON document are spellings of one version.
OneSpelling ==
    \A j, k \in 1 .. Len(idoc) :
        parse_version(idoc[j].version) = parse_version(idoc[k].version)
            => idoc[j].version = idoc[k].version
\* The parts of C19 that hold: the strict parse, the HTML index, and the
\* JSON index whose keys are one spelling each.
UnparseableEntryOneSpelling ==
    Parsed =>
        /\ (iargs.strict /\ \E k \in 1 .. Len(idoc) : Unparseable(idoc[k]))
           => iout = UnexpectedFilename
        /\ (~iargs.strict /\ (~iargs.use_json \/ OneSpelling)) =>
              /\ iout.err = ""
              /\ \A v \in 1 .. 2, dir \in 1 .. 2, basename \in 1 .. 8 :
                    Cardinality(Held(v, dir, basename))
                        = Cardinality(Listed(v, dir, basename))
              /\ ~iargs.use_json => \A r \in ParsedReleases : r.files # <<>>

\* C30 as stated: every entry of the document whose filename parses is held
\* by exactly one release of the returned Package, that of its parsed
\* version, in the HTML and in the JSON index; the files listed under two
\* spellings of one version are all in that version's release.
C30_EveryEntryInOneRelease ==
    (Parsed /\ iout.err = "" /\ \A k \in 1 .. Len(idoc) : ~Unparseable(idoc[k])) =>
        \A k \in 1 .. Len(idoc) :
            Cardinality(Held(parse_version(idoc[k].version), idoc[k].dir, Basename(idoc[k])))
                = Cardinality(Listed(parse_version(idoc[k].version), idoc[k].dir,
                                     Basename(idoc[k])))
\* The HTML index keeps the files of both spellings.
EveryEntryInOneReleaseHtml ==
    iargs.use_json \/ C30_EveryEntryInOneRelease

(***************************************************************************)
(* The extraction cache: the claims                                        *)
(***************************************************************************)
Extracted == [k \in 1 .. Len(Members) |-> "whole"]
UnpackOnlyWhenAbsent ==
    \A c \in 1 .. MaxExtracts : calls[c].pc \in {"unpack", "write"} => ~calls[c].found
SentinelAfterUnpack ==
    sentinel => \E c \in 1 .. MaxExtracts :
                   ~calls[c].found /\ calls[c].pc \in {"walk", "returned"}
SentinelMeansExtracted ==
    \A c \in 1 .. MaxExtracts :
        (calls[c].found /\ calls[c].pc = "returned") => calls[c].saw = Extracted

\* C20 as stated: over any interleaving of extract_and_get_names calls on one
\* archive, only a call that found the sentinel absent unpacks, the sentinel
\* exists only after an unpack finished, and every call that found the
\* sentinel walks a completely extracted tree.
C20_ExtractedOnce ==
    /\ UnpackOnlyWhenAbsent
    /\ SentinelAfterUnpack
    /\ SentinelMeansExtracted

(***************************************************************************)
(* The cross-distribution check: the claims                                *)
(***************************************************************************)
CheckedRelease == kpkg[kn]
HasSdist(files) == \E k \in 1 .. Len(files) : files[k].file_type = "SDIST"
OnlySdists(files) == \A k \in 1 .. Len(files) : files[k].file_type = "SDIST"
\* The hash map of the sdist (of the last one, when there are several).
SdistMap(files) ==
    LET last == CHOOSE k \in 1 .. Len(files) :
                    /\ files[k].file_type = "SDIST"
                    /\ \A j \in k + 1 .. Len(files) : files[j].file_type # "SDIST"
    IN  archive_hashes(files[last].members, TRUE)
\* The <<path, digest>> items hashed in the wheels and eggs.
BdistItems(files) ==
    UNION {archive_hashes(files[k].members, FALSE) :
              k \in {j \in 1 .. Len(files) : files[j].file_type \in {"BDIST_WHEEL", "BDIST_EGG"}}}
MissingFromSdist(files) ==
    \E i \in BdistItems(files) : \A j \in SdistMap(files) : j[1] # i[1]
DiffersFromSdist(files) ==
    \E i \in BdistItems(files) : \E j \in SdistMap(files) : j[1] = i[1] /\ j[2] # i[2]
Combined(k) == \E j \in 1 .. kn : Bit(run_checker(kpkg[j]).rc, k) = 1

\* C21 as stated: in the result code 2 means a wheel file missing from the
\* sdist, 4 a hash mismatch and 8 a release without sdist; the results of
\* several releases are combined by bitwise OR.
C21_DocumentedCodes ==
    kn > 0 =>
        /\ ~HasSdist(CheckedRelease) => kout.rc = 8
        /\ (HasSdist(CheckedRelease) /\ ~OnlySdists(CheckedRelease)) =>
              /\ Bit(kout.rc, 1) = 1 <=> MissingFromSdist(CheckedRelease)
              /\ Bit(kout.rc, 2) = 1 <=> DiffersFromSdist(CheckedRelease)
        /\ \A k \in 0 .. 3 : Bit(krc, k) = 1 <=> Combined(k)

\* C21: the result code of run_checker is 1 for a release without sdist and
\* otherwise a bitmask in which 4 means a wheel file missing from the sdist
\* and 8 a hash mismatch; the check command combines the results of several
\* releases by bitwise OR.
C21_ResultCodes ==
    kn > 0 =>
        /\ ~HasSdist(CheckedRelease) => kout.rc = 1
        /\ (HasSdist(CheckedRelease) /\ ~OnlySdists(CheckedRelease)) =>
              /\ Bit(kout.rc, 2) = 1 <=> MissingFromSdist(CheckedRelease)
              /\ Bit(kout.rc, 3) = 1 <=> DiffersFromSdist(CheckedRelease)
              /\ Bit(kout.rc, 0) = 0 /\ Bit(kout.rc, 1) = 0
        /\ krc < 16
        /\ \A k \in 0 .. 3 : Bit(krc, k) = 1 <=> Combined(k)
C21_Witness ==
    /\ kn = 2
    /\ run_checker(kpkg[1]).rc = 4
    /\ kout.rc = 4
    /\ krc = 4

\* C22: for a release with an sdist and another file run_checker returns 0
\* exactly when every path hashed in a wheel or egg is in the sdist's hash
\* map with the same digest; a missing path and a differing digest set
\* different bits; files of other kinds do not change the result; an
\* sdist-only release returns 0 and fetches nothing.
C22_CheckerVerdict ==
    kn > 0 =>
        /\ (HasSdist(CheckedRelease) /\ ~OnlySdists(CheckedRelease)) =>
              /\ kout.rc = 0 <=> (/\ ~MissingFromSdist(CheckedRelease)
                                  /\ ~DiffersFromSdist(CheckedRelease))
              /\ MissingFromSdist(CheckedRelease) <=> Bit(kout.rc, 2) = 1
              /\ DiffersFromSdist(CheckedRelease) <=> Bit(kout.rc, 3) = 1
              /\ kout.rc = run_checker(
                     SelectSeq(CheckedRelease, LAMBDA f :
                         f.file_type \in {"SDIST", "BDIST_WHEEL", "BDIST_EGG"})).rc
        /\ (CheckedRelease # <<>> /\ OnlySdists(CheckedRelease)) =>
              kout = [rc |-> 0, fetched |-> 0]
C22_Witness ==
    /\ kn = 1
    /\ Len(CheckedRelease) = 3
    /\ CheckedRelease[1].file_type = "SDIST"
    /\ CheckedRelease[2].file_type = "BDIST_EGG"
    /\ CheckedRelease[3].file_type = "BDIST_WININST"
    /\ DiffersFromSdist(CheckedRelease)
    /\ ~MissingFromSdist(CheckedRelease)
    /\ \E m \in CheckedRelease[3].members :
          \A j \in SdistMap(CheckedRelease) : j[1] # srckey(m[1], FALSE)
    /\ kout.rc = 8

(***************************************************************************)
(* Walker: conflicts, extras, markers, requirement discovery and futures   *)
(***************************************************************************)
\* A step of walk's loop: the head of the queue is dequeued.
Dequeues ==
    /\ wpc = "walking"
    /\ queue # <<>>
    /\ (queue' # queue \/ heap' # heap \/ wpc' # wpc)
Dequeued == Head(queue)
MarkerFalse(e) ==
    e.req.marker # NoMarker /\ ~_do_markers_match(e.req.marker, wcfg.python_version)
\* The version picked for the dequeued requirement, when one is picked.
ThePick ==
    _pick_a_version(Dequeued.req, index[Dequeued.name], already_chosen, wargs.installed)
Picks ==
    /\ Dequeues
    /\ ~MarkerFalse(Dequeued)
    /\ futures[Dequeued.name] = "ok"
    /\ ThePick.err = ""
    /\ HasRelease(index[Dequeued.name], ThePick.v) \/ is_canonical(Dequeued.req.name)
PickedName == canonicalize_name(Dequeued.req.name)

\* C23: whenever the version picked for a dequeued requirement differs from
\* the one recorded in already_chosen for the name, the name is added to
\* known_conflicts, already_chosen takes the new pick and the walk goes on to
\* link the requirement into the graph; known_conflicts only grows.
C23_ConflictRecorded ==
    /\ [][(/\ Picks
           /\ already_chosen[PickedName] # 0
           /\ already_chosen[PickedName] # ThePick.v)
          => /\ PickedName \in known_conflicts'
             /\ already_chosen'[PickedName] = ThePick.v
             /\ Len(heap'[Dequeued.parent].deps) = Len(heap[Dequeued.parent].deps) + 1
             /\ heap'[Last(heap'[Dequeued.parent].deps).target].version = ThePick.v]_vars
    /\ [][known_conflicts \subseteq known_conflicts']_vars
C23_Witness ==
    /\ "b" \in known_conflicts
    /\ already_chosen["b"] = 1
    /\ \E i, j \in Objects :
          /\ heap[i].name = "b" /\ heap[j].name = "b"
          /\ heap[i].version = 2 /\ heap[j].version = 1

\* The requirements a step appended to the queue, and the requirement list
\* of the node it walked.
Appended ==
    [k \in 1 .. (Len(queue') - Len(queue) + 1) |-> queue'[Len(queue) - 1 + k].req]
Walks == Dequeues /\ Len(walked') = Len(walked) + 1
WalkedDeps ==
    _fetch_single_deps(index[Last(walked').name], Last(walked').version).deps

\* C24 as stated: a discovered dependency whose marker has extra == X is
\* enqueued exactly when X is in the extras of the requirement being walked
\* or include_extras is set; one without extra is always enqueued.
C24_ExtraOrIncludeExtras ==
    [][Walks =>
          Appended = SelectSeq(WalkedDeps, LAMBDA d :
                        \/ ExtraStr(d.marker) = ""
                        \/ ExtraStr(d.marker) \in Dequeued.req.extras
                        \/ wargs.include_extras)]_vars

\* C24: a discovered dependency whose marker has extra == X is enqueued
\* exactly when include_extras is set and X is in the extras of the
\* requirement being walked; one without extra is always enqueued.
C24_ExtraAndIncludeExtras ==
    [][Walks =>
          Appended = SelectSeq(WalkedDeps, LAMBDA d :
                        \/ ExtraStr(d.marker) = ""
                        \/ /\ wargs.include_extras
                           /\ ExtraStr(d.marker) \in Dequeued.req.extras)]_vars
C24_Witness ==
    /\ wargs.include_extras
    /\ \E k \in 1 .. Len(queue) :
          /\ ExtraStr(queue[k].req.marker) = "x"
          /\ queue[k].parent # RootId
          /\ "x" \in heap[queue[k].parent].dep_extras

\* C25: a dequeued requirement whose marker is false is dropped without
\* waiting for the future of its package: the step is enabled whatever the
\* state of the fetch, it only removes the head of the queue, creates no node
\* and no edge, leaves already_chosen and known_conflicts alone and does not
\* end the walk.
C25_FalseMarkerDropped ==
    /\ []((wpc = "walking" /\ queue # <<>> /\ MarkerFalse(Head(queue)))
            => ENABLED WalkStep)
    /\ [][(Dequeues /\ MarkerFalse(Dequeued))
          => /\ queue' = Tail(queue)
             /\ wpc' = "walking"
             /\ werr' = werr
             /\ UNCHANGED <<heap, nodes, already_chosen, known_conflicts, futures>>]_vars
C25_Witness ==
    /\ index = LoopIndex
    /\ wpc = "walking"
    /\ queue = <<>>
    /\ werr = ""
    /\ futures["a"] \in {"pending", "failed"}
    /\ Len(walked) = 2

\* C26: requirement discovery follows a fixed precedence: an inline requires
\* list verbatim with no artifact access; else the first wheel, read
\* remotely when its size is known and over 20 MB and through the cache
\* otherwise; else the first sdist through the cache; else it fails.
Discovery(rel) ==
    LET wheels == {k \in 1 .. Len(rel.files) : rel.files[k].file_type = "BDIST_WHEEL"}
        sdists == {k \in 1 .. Len(rel.files) : rel.files[k].file_type = "SDIST"}
        first(ks) == CHOOSE k \in ks : \A j \in ks : k <= j
        size == rel.files[first(wheels)].size
    IN  IF rel.requires.some
        THEN [failed |-> FALSE, deps |-> rel.requires.list, access |-> "none"]
        ELSE IF wheels # {}
        THEN [failed |-> FALSE, deps |-> rel.files[first(wheels)].meta,
              access |-> IF size # 0 /\ size > 20 * 1000 * 1000 THEN "remote" ELSE "cache"]
        ELSE IF sdists # {}
        THEN [failed |-> FALSE, deps |-> rel.files[first(sdists)].meta, access |-> "cache"]
        ELSE [failed |-> TRUE, deps |-> <<>>, access |-> "none"]
C26_DiscoveryPrecedence ==
    /\ \A n \in IndexNames : \A k \in 1 .. Len(index[n].releases) :
          LET rel == index[n].releases[k]
              got == _fetch_single_deps(index[n], rel.version)
          IN  /\ (got.err # "") = Discovery(rel).failed
              /\ got.deps = Discovery(rel).deps
              /\ got.access = Discovery(rel).access
    /\ \A k \in 1 .. Len(fetches) :
          HasRelease(index[fetches[k].key.name], fetches[k].key.version) =>
              LET rel == ReleaseOf(index[fetches[k].key.name], fetches[k].key.version)
              IN  /\ (fetches[k].err # "") = Discovery(rel).failed
                  /\ fetches[k].access = Discovery(rel).access
C26_Witness ==
    \E k \in 1 .. Len(fetches) :
        /\ fetches[k].access = "remote"
        /\ fetches[k].key.name = "c"
        /\ wpc = "idle"
        /\ queue = <<>>

\* C27: at most one fetch task is submitted per canonical name; every queue
\* entry carries the canonical name of its requirement and shares the future
\* stored for it, which is never replaced; the completion of a task changes
\* nothing but that future.
C27_OneFuturePerName ==
    /\ [](\A n \in WNames : submits[n] <= 1)
    /\ [](\A k \in 1 .. Len(queue) :
             /\ queue[k].name = canonicalize_name(queue[k].req.name)
             /\ futures[queue[k].name] # "absent")
    /\ [][\A n \in WNames :
             futures'[n] # futures[n] =>
                \/ futures[n] = "absent" /\ futures'[n] = "pending" /\ submits'[n] = 1
                \/ /\ futures[n] = "pending" /\ futures'[n] \in {"ok", "failed"}
                   /\ UNCHANGED <<queue, heap, nodes, already_chosen, known_conflicts>>
                   /\ \A m \in WNames \ {n} : futures'[m] = futures[m]]_vars
C27_Witness ==
    /\ submits["b"] = 1
    /\ futures["b"] = "ok"
    /\ \E j, k \in 1 .. Len(queue) :
          /\ queue[j].name = "b" /\ queue[k].name = "b"
          /\ queue[j].req.name = "B" /\ queue[k].req.name = "b"
          /\ queue[j].parent = RootId /\ queue[k].parent # RootId

\* C28 as stated: a dependency enqueued because its extra == X marker matched
\* an extra of the parent requirement is not dropped by the marker check at
\* dequeue: once its package is fetched, dequeuing it adds an edge from the
\* parent node.
C28_ExtraDependencyLinked ==
    [][(/\ Dequeues
        /\ Dequeued.parent # RootId
        /\ ExtraStr(Dequeued.req.marker) # ""
        /\ ExtraStr(Dequeued.req.marker) \in heap[Dequeued.parent].dep_extras
        /\ futures[Dequeued.name] = "ok")
       => Len(heap'[Dequeued.parent].deps) = Len(heap[Dequeued.parent].deps) + 1]_vars

\* C29 as stated: whenever the node map holds two nodes of one name with
\* different versions, the name is in known_conflicts.
C29_TwoVersionsAreConflicts ==
    \A i, j \in Objects :
        (heap[i].name = heap[j].name /\ heap[i].version # heap[j].version)
            => heap[i].name \in known_conflicts

====
